---- MODULE Spec2Model ----
(***************************************************************************)
(* Verification model of the Winners' Chapel API: the credential store     *)
(* (lib/db.js, USERS section), the token service and authorization gate    *)
(* (middleware/auth.js), the /api/auth routes and the /api/users routes.    *)
(*                                                                         *)
(* A database row is a record keyed by the SQL column names; toCamelCase   *)
(* turns it into the object the routes see.  A JavaScript object (a        *)
(* request body, a patch) is a record that holds only the keys that are    *)
(* present, so   k \in DOMAIN body   is   body.k !== undefined.            *)
(* Time is counted in hours.                                               *)
(***************************************************************************)
EXTENDS Integers, Sequences, FiniteSets, TLC

\* ------------------------------------------------------------------ bounds
MaxUsers == 2          \* rows the users table may hold
MaxTokens == 2         \* tokens generateToken may hand out
MaxNow == 24           \* the clock stops here
MaxRequests == 4       \* requests the server answers in one run
MaxItems == 1          \* rows each content table may hold
MaxCalls == 2          \* calls made into the store on its own in one run
MaxContent == 3        \* content requests the server handles in one run
MaxCommands == 4       \* runs of the database commands

\* ------------------------------------------------------- program constants
TokenTTL == 24                 \* expiresIn: '24h'
MinPasswordLength == 6         \* password.length < 6
TickHours == TokenTTL \div 2   \* one step of the clock: half a token's life
JWT_SECRET == "your-super-secret-key-change-this-in-production"
OtherSecret == "some-other-secret"

NULL == "NULL"                 \* SQL NULL / JS null in a string column
Undefined == "undefined"       \* JS undefined read from an absent key
Null == [null |-> TRUE]        \* JS null where an object is expected

VARIABLES
  users,     \* the users table: id -> row
  issued,    \* the tokens generateToken has returned to clients
  now,       \* the clock, in hours
  reqUser,   \* req.user of the last request: the claims the gate attached
  res,       \* the response to the last request
  served,    \* the number of requests answered, or of store calls made
  posters,         \* the posters table: id -> row
  announcements,   \* the announcements table: id -> row
  events,          \* the events table: id -> row
  call,      \* the last call of a store function, content request or command
  themes,          \* the theme table: id -> row
  files,           \* the paths under public/ that name a file on disk
  migrationsDir,   \* the .sql files in the migrations directory
  schema,          \* the statements of migration files the database holds
  ledger,          \* the names in the migrations table, ordered by id
  uploadCategory,  \* the module-level `let uploadCategory` of the upload router
  inFlight         \* the uploads whose form was read and whose file is not stored yet

vars ==
  <<users, issued, now, reqUser, res, served, posters, announcements, events,
    call, themes, files, migrationsDir, schema, ledger, uploadCategory,
    inFlight>>

\* what the users routes and the calls into the store leave alone
diskAndSchema == <<themes, files, migrationsDir, schema, ledger>>

\* the state of the upload router
uploadRouter == <<uploadCategory, inFlight>>

\* ------------------------------------------------------------------ inputs
defaultAdmin ==
  [email |-> "admin@winnerschapel", password |-> "admin123",
   name |-> "Admin", role |-> "super_admin"]

EmailInputs == {"admin@winnerschapel", "Admin@WinnersChapel", "Bob@wc.org"}
PasswordInputs == {"admin123", "changeme1", "abc"}
NameInputs == {"Admin"}
RoleInputs == {"admin", "super_admin", "guest"}
IdInputs == 1..(MaxUsers + 1)

\* String.prototype.toLowerCase on the strings of the model
toLowerCase(s) ==
  CASE s = "Admin@WinnersChapel" -> "admin@winnerschapel"
    [] s = "Bob@wc.org" -> "bob@wc.org"
    [] OTHER -> s

\* a || b
OrElse(a, b) == IF a \in {Undefined, NULL, ""} THEN b ELSE a

\* const { k } = obj
Get(obj, k) == IF k \in DOMAIN obj THEN obj[k] ELSE Undefined

\* every object over the keys of `full`, each key present or absent
Restrict(full, K) == [k \in K |-> full[k]]

\* ------------------------------------------------------- password hasher
\* bcrypt: the salt is random, comparePassword depends on the password only
hashPassword(password) == <<"bcrypt", password>>

comparePassword(password, hash) == hash = hashPassword(password)

\* ------------------------------------------------------- credential store
CamelKey ==
  [id |-> "id", email |-> "email", password_hash |-> "passwordHash",
   name |-> "name", role |-> "role",
   must_change_password |-> "mustChangePassword",
   is_active |-> "isActive", last_login |-> "lastLogin",
   created_at |-> "createdAt", updated_at |-> "updatedAt",
   title |-> "title", category |-> "category", image_url |-> "imageUrl",
   description |-> "description", display_order |-> "displayOrder",
   date |-> "date", time |-> "time", icon |-> "icon", badge |-> "badge",
   badge_variant |-> "badgeVariant", poster_path |-> "posterPath"]

toCamelCase(row) ==
  IF row = Null THEN Null
  ELSE [ck \in {CamelKey[k] : k \in DOMAIN row} |->
          row[CHOOSE k \in DOMAIN row : CamelKey[k] = ck]]

\* ----------------------------------------------------------- content store
EmptyTable == [i \in {} |-> Null]

\* a call on a content table: it threw, or it left `rows` and returned `value`
Raised(t) == [threw |-> TRUE, rows |-> t, value |-> Null]
Returned(t, v) == [threw |-> FALSE, rows |-> t, value |-> v]

\* a query parameter: undefined is sent as NULL
Param(obj, k) == IF k \in DOMAIN obj THEN obj[k] ELSE NULL

\* the constraints of the posters table
PosterAccepted(row) ==
  /\ row.title # NULL /\ row.category # NULL /\ row.image_url # NULL
  /\ row.category \in {"service", "event", "theme"}

\* the constraints of the announcements table
AnnouncementAccepted(row) ==
  /\ row.title # NULL /\ row.date # NULL /\ row.description # NULL
  /\ row.icon # NULL /\ row.badge # NULL /\ row.badge_variant # NULL
  /\ row.badge_variant \in {"default", "secondary", "outline"}

\* the constraints of the events table
EventAccepted(row) ==
  /\ row.title # NULL /\ row.date # NULL /\ row.time # NULL
  /\ row.description # NULL /\ row.image_url # NULL

getPosterById(t, id) == IF id \in DOMAIN t THEN toCamelCase(t[id]) ELSE Null

createPoster(t, poster) ==
  LET row == [id |-> poster.id,
              title |-> Param(poster, "title"),
              category |-> Param(poster, "category"),
              image_url |-> Param(poster, "imageUrl"),
              description |-> OrElse(Get(poster, "description"), NULL),
              is_active |-> TRUE,
              display_order |-> 0,
              created_at |-> now,
              updated_at |-> now]
      t2 == [i \in DOMAIN t \cup {poster.id} |-> IF i = poster.id THEN row ELSE t[i]]
  IN IF poster.id \in DOMAIN t \/ ~PosterAccepted(row)
     THEN Raised(t)
     ELSE Returned(t2, getPosterById(t2, poster.id))

\* COALESCE that writes whatever the patch holds, null included
Coalesce_Overwrite(patch, k, old) == IF k \in DOMAIN patch THEN patch[k] ELSE old

\* COALESCE($n, column): an absent key is sent as NULL
Coalesce(patch, k, old) ==
  IF k \in DOMAIN patch /\ patch[k] # NULL THEN patch[k] ELSE old

\* COALESCE on a boolean or integer column, which no caller sends null
CoalesceValue(patch, k, old) == IF k \in DOMAIN patch THEN patch[k] ELSE old

updatePoster(t, id, updates) ==
  IF getPosterById(t, id) = Null THEN Returned(t, Null)
  ELSE
    LET row == [t[id] EXCEPT
                  !.title = Coalesce(updates, "title", @),
                  !.category = Coalesce(updates, "category", @),
                  !.image_url = Coalesce(updates, "imageUrl", @),
                  !.description = Coalesce(updates, "description", @),
                  !.is_active = CoalesceValue(updates, "isActive", @),
                  !.display_order = CoalesceValue(updates, "displayOrder", @),
                  !.updated_at = now]
        t2 == [t EXCEPT ![id] = row]
    IN IF ~PosterAccepted(row) THEN Raised(t)
       ELSE Returned(t2, getPosterById(t2, id))

\* deletePoster as a deactivation: the row stays, no longer active
deletePoster_Soft(t, id) ==
  IF getPosterById(t, id) = Null THEN Returned(t, FALSE)
  ELSE Returned([t EXCEPT ![id].is_active = FALSE], TRUE)

\* DELETE FROM posters WHERE id = $1, and whether a row went
deletePoster(t, id) ==
  IF getPosterById(t, id) = Null THEN Returned(t, FALSE)
  ELSE Returned([i \in DOMAIN t \ {id} |-> t[i]], TRUE)

\* SELECT * FROM posters WHERE is_active = TRUE
getPosters(t) == {toCamelCase(t[i]) : i \in {j \in DOMAIN t : t[j].is_active}}

getAnnouncementById(t, id) == IF id \in DOMAIN t THEN toCamelCase(t[id]) ELSE Null

createAnnouncement(t, announcement) ==
  LET row == [id |-> announcement.id,
              title |-> Param(announcement, "title"),
              date |-> Param(announcement, "date"),
              description |-> Param(announcement, "description"),
              icon |-> Param(announcement, "icon"),
              badge |-> Param(announcement, "badge"),
              badge_variant |-> Param(announcement, "badgeVariant"),
              is_active |-> TRUE,
              created_at |-> now,
              updated_at |-> now]
      t2 == [i \in DOMAIN t \cup {announcement.id} |->
               IF i = announcement.id THEN row ELSE t[i]]
  IN IF announcement.id \in DOMAIN t \/ ~AnnouncementAccepted(row)
     THEN Raised(t)
     ELSE Returned(t2, getAnnouncementById(t2, announcement.id))

updateAnnouncement(t, id, updates) ==
  IF getAnnouncementById(t, id) = Null THEN Returned(t, Null)
  ELSE
    LET row == [t[id] EXCEPT
                  !.title = Coalesce(updates, "title", @),
                  !.date = Coalesce(updates, "date", @),
                  !.description = Coalesce(updates, "description", @),
                  !.icon = Coalesce(updates, "icon", @),
                  !.badge = Coalesce(updates, "badge", @),
                  !.badge_variant = Coalesce(updates, "badgeVariant", @),
                  !.is_active = CoalesceValue(updates, "isActive", @),
                  !.updated_at = now]
        t2 == [t EXCEPT ![id] = row]
    IN IF ~AnnouncementAccepted(row) THEN Raised(t)
       ELSE Returned(t2, getAnnouncementById(t2, id))

deleteAnnouncement(t, id) ==
  IF getAnnouncementById(t, id) = Null THEN Returned(t, FALSE)
  ELSE Returned([i \in DOMAIN t \ {id} |-> t[i]], TRUE)

\* SELECT * FROM announcements WHERE is_active = TRUE
getAnnouncements(t) == {toCamelCase(t[i]) : i \in {j \in DOMAIN t : t[j].is_active}}

getEventById(t, id) == IF id \in DOMAIN t THEN toCamelCase(t[id]) ELSE Null

createEvent(t, event) ==
  LET row == [id |-> event.id,
              title |-> Param(event, "title"),
              date |-> Param(event, "date"),
              time |-> Param(event, "time"),
              description |-> Param(event, "description"),
              image_url |-> Param(event, "imageUrl"),
              is_active |-> TRUE,
              created_at |-> now,
              updated_at |-> now]
      t2 == [i \in DOMAIN t \cup {event.id} |-> IF i = event.id THEN row ELSE t[i]]
  IN IF event.id \in DOMAIN t \/ ~EventAccepted(row)
     THEN Raised(t)
     ELSE Returned(t2, getEventById(t2, event.id))

updateEvent(t, id, updates) ==
  IF getEventById(t, id) = Null THEN Returned(t, Null)
  ELSE
    LET row == [t[id] EXCEPT
                  !.title = Coalesce(updates, "title", @),
                  !.date = Coalesce(updates, "date", @),
                  !.time = Coalesce(updates, "time", @),
                  !.description = Coalesce(updates, "description", @),
                  !.image_url = Coalesce(updates, "imageUrl", @),
                  !.is_active = CoalesceValue(updates, "isActive", @),
                  !.updated_at = now]
        t2 == [t EXCEPT ![id] = row]
    IN IF ~EventAccepted(row) THEN Raised(t)
       ELSE Returned(t2, getEventById(t2, id))

deleteEvent(t, id) ==
  IF getEventById(t, id) = Null THEN Returned(t, FALSE)
  ELSE Returned([i \in DOMAIN t \ {id} |-> t[i]], TRUE)

\* SELECT * FROM events WHERE is_active = TRUE
getEvents(t) == {toCamelCase(t[i]) : i \in {j \in DOMAIN t : t[j].is_active}}

\* the dates of the model, as a DATE column orders them
DateOrder == <<"2026-01-04", "2026-04-05", "2026-12-08">>

DateRank(d) == CHOOSE i \in DOMAIN DateOrder : DateOrder[i] = d

\* ORDER BY: the rows in every sequence the sort keys allow; rows whose keys
\* are equal come in either order
OrderBy(rows, Before(_, _)) ==
  {s \in [1..Cardinality(rows) -> rows] :
     /\ \A i, j \in DOMAIN s : i # j => s[i] # s[j]
     /\ \A i, j \in DOMAIN s : i < j => ~Before(s[j], s[i])}

\* ORDER BY display_order ASC, created_at ASC
PostersBefore_CreatedAsc(a, b) ==
  \/ a.displayOrder < b.displayOrder
  \/ a.displayOrder = b.displayOrder /\ a.createdAt < b.createdAt

\* ORDER BY display_order ASC, created_at DESC
PostersBefore(a, b) ==
  \/ a.displayOrder < b.displayOrder
  \/ a.displayOrder = b.displayOrder /\ a.createdAt > b.createdAt

\* ORDER BY date DESC
AnnouncementsBefore(a, b) == DateRank(a.date) > DateRank(b.date)

\* ORDER BY date ASC
EventsBefore(a, b) == DateRank(a.date) < DateRank(b.date)

\* toCamelCaseArray(result.rows) of the three listing queries
getPostersRows(t) == OrderBy(getPosters(t), PostersBefore)

getAnnouncementsRows(t) == OrderBy(getAnnouncements(t), AnnouncementsBefore)

getEventsRows(t) == OrderBy(getEvents(t), EventsBefore)

\* the theme table's functions, which routes/theme.js calls: the same
\* operation set as the other content kinds, over the columns of the table
ThemeAccepted(row) == row.title # NULL /\ row.poster_path # NULL

getThemeById(t, id) == IF id \in DOMAIN t THEN toCamelCase(t[id]) ELSE Null

createTheme(t, theme) ==
  LET row == [id |-> theme.id,
              title |-> Param(theme, "title"),
              description |-> OrElse(Get(theme, "description"), NULL),
              poster_path |-> Param(theme, "posterPath"),
              created_at |-> now,
              updated_at |-> now]
      t2 == [i \in DOMAIN t \cup {theme.id} |-> IF i = theme.id THEN row ELSE t[i]]
  IN IF theme.id \in DOMAIN t \/ ~ThemeAccepted(row)
     THEN Raised(t)
     ELSE Returned(t2, getThemeById(t2, theme.id))

updateTheme(t, id, updates) ==
  IF getThemeById(t, id) = Null THEN Returned(t, Null)
  ELSE
    LET row == [t[id] EXCEPT
                  !.title = Coalesce(updates, "title", @),
                  !.description = Coalesce(updates, "description", @),
                  !.poster_path = Coalesce(updates, "posterPath", @),
                  !.updated_at = now]
        t2 == [t EXCEPT ![id] = row]
    IN IF ~ThemeAccepted(row) THEN Raised(t)
       ELSE Returned(t2, getThemeById(t2, id))

deleteTheme(t, id) ==
  IF getThemeById(t, id) = Null THEN Returned(t, FALSE)
  ELSE Returned([i \in DOMAIN t \ {id} |-> t[i]], TRUE)

\* ------------------------------------------------------------ users store
\* SELECT id, email, name, role, must_change_password, is_active, ...
PublicColumns ==
  {"id", "email", "name", "role", "must_change_password", "is_active",
   "last_login", "created_at", "updated_at"}

\* the constraints of the users table: email NOT NULL UNIQUE, role CHECK
RowAccepted(u, id, row) ==
  /\ row.email # NULL
  /\ \A j \in DOMAIN u \ {id} : u[j].email # row.email
  /\ row.role \in {"admin", "super_admin"}

getUsers(u) ==
  {toCamelCase(Restrict(u[i], PublicColumns)) : i \in {j \in DOMAIN u : u[j].is_active}}

\* getUserById as SELECT * FROM users WHERE id = $1
getUserById_AllColumns(u, id) ==
  IF id \in DOMAIN u THEN toCamelCase(u[id]) ELSE Null

getUserById(u, id) ==
  IF id \in DOMAIN u THEN toCamelCase(Restrict(u[id], PublicColumns)) ELSE Null

\* the lookup without the is_active filter
getUserByEmail_AnyStatus(u, email) ==
  LET rows == {i \in DOMAIN u : u[i].email = toLowerCase(email)}
  IN IF rows = {} THEN Null ELSE toCamelCase(u[CHOOSE i \in rows : TRUE])

getUserByEmail(u, email) ==
  LET rows == {i \in DOMAIN u : u[i].email = toLowerCase(email) /\ u[i].is_active}
  IN IF rows = {} THEN Null ELSE toCamelCase(u[CHOOSE i \in rows : TRUE])

\* a store call: it threw, or it left the table `users` and returned `value`
Threw(u) == [threw |-> TRUE, users |-> u, value |-> Null]
Done(u, v) == [threw |-> FALSE, users |-> u, value |-> v]

createUser(u, user) ==
  LET row == [id |-> user.id,
              email |-> toLowerCase(user.email),
              password_hash |-> user.passwordHash,
              name |-> OrElse(user.name, NULL),
              role |-> OrElse(user.role, "admin"),
              must_change_password |-> (user.mustChangePassword # FALSE),
              is_active |-> TRUE,
              last_login |-> <<>>,
              created_at |-> now,
              updated_at |-> now]
      u2 == [i \in DOMAIN u \cup {user.id} |-> IF i = user.id THEN row ELSE u[i]]
  IN IF user.id \in DOMAIN u \/ ~RowAccepted(u, user.id, row)
     THEN Threw(u)
     ELSE Done(u2, getUserById(u2, user.id))

\* the email stored as it was sent
LowerEmail_AsGiven(patch) == patch

\* email?.toLowerCase()
LowerEmail(patch) ==
  IF "email" \in DOMAIN patch /\ patch.email # NULL
  THEN [patch EXCEPT !.email = toLowerCase(patch.email)] ELSE patch

updateUser(u, id, updates) ==
  IF getUserById(u, id) = Null THEN Done(u, Null)
  ELSE
    LET row == [u[id] EXCEPT
                  !.email = Coalesce(LowerEmail(updates), "email", @),
                  !.name = Coalesce(updates, "name", @),
                  !.role = Coalesce(updates, "role", @),
                  !.is_active = CoalesceValue(updates, "isActive", @),
                  !.updated_at = now]
        u2 == [u EXCEPT ![id] = row]
    IN IF ~RowAccepted(u, id, row) THEN Threw(u)
       ELSE Done(u2, getUserById(u2, id))

updateUserPassword(u, id, passwordHash) ==
  LET u2 == [i \in DOMAIN u |->
               IF i = id
               THEN [u[i] EXCEPT !.password_hash = passwordHash,
                                 !.must_change_password = FALSE,
                                 !.updated_at = now]
               ELSE u[i]]
  IN Done(u2, getUserById(u2, id))

updateLastLogin(u, id) ==
  Done([i \in DOMAIN u |->
          IF i = id THEN [u[i] EXCEPT !.last_login = <<now>>] ELSE u[i]], Null)

deleteUser(u, id) ==
  IF getUserById(u, id) = Null THEN Done(u, FALSE)
  ELSE Done([u EXCEPT ![id] = [@ EXCEPT !.is_active = FALSE, !.updated_at = now]], TRUE)

\* ----------------------------------------------------------- token service
\* a token: the signed claims, the key that signed them, and whether the
\* string parses as a JWT at all
generateToken(user) ==
  [payload |-> [id |-> user.id, email |-> user.email, role |-> user.role,
                iat |-> now, exp |-> now + TokenTTL],
   key |-> JWT_SECRET, wellFormed |-> TRUE]

\* the claims with the role read from the users table at verification
verifyToken_LiveRole(token) ==
  IF token.wellFormed /\ token.key = JWT_SECRET /\ now < token.payload.exp
  THEN [token.payload EXCEPT
          !.role = IF token.payload.id \in DOMAIN users
                   THEN users[token.payload.id].role ELSE @]
  ELSE Null

\* a token still accepted at the instant it expires
verifyToken_Inclusive(token) ==
  IF token.wellFormed /\ token.key = JWT_SECRET /\ now <= token.payload.exp
  THEN token.payload ELSE Null

\* jwt.verify throws on a bad token, a bad signature and when now >= exp
verifyToken(token) ==
  IF token.wellFormed /\ token.key = JWT_SECRET /\ now < token.payload.exp
  THEN token.payload ELSE Null

\* ------------------------------------------------------- requests, replies
\* req.headers.authorization, split at the spaces: <<"Bearer", token>>
MalformedToken ==
  [payload |-> [id |-> 0, email |-> "", role |-> "", iat |-> 0, exp |-> 0],
   key |-> "", wellFormed |-> FALSE]

ForgedToken ==
  [payload |-> [id |-> 1, email |-> defaultAdmin.email, role |-> "super_admin",
                iat |-> now, exp |-> now + TokenTTL],
   key |-> OtherSecret, wellFormed |-> TRUE]

NoAuthorization == [accept |-> "application/json"]

WithAuthorization(parts) ==
  [accept |-> "application/json", authorization |-> parts]

\* headers the gate turns away whatever the clock says
InvalidHeaders ==
  {NoAuthorization, WithAuthorization(<<"Bearer">>),
   WithAuthorization(<<"Basic", MalformedToken>>),
   WithAuthorization(<<"Bearer", MalformedToken>>),
   WithAuthorization(<<"Bearer", ForgedToken>>)}

\* headers that carry a token the server has handed out (it may have expired)
IssuedHeaders == {WithAuthorization(<<"Bearer", t>>) : t \in issued}

HeaderInputs == InvalidHeaders \cup IssuedHeaders

AuthRequired == "Please log in to continue"
SessionExpired == "Your session has expired. Please log in again."

\* res.status(status).json({ error })
Fail(route, status, error) ==
  [route |-> route, status |-> status, error |-> error, body |-> Null]

\* res.status(status).json(body)
Json(route, status, body) ==
  [route |-> route, status |-> status, error |-> "", body |-> body]

\* what a handler leaves behind: the response, the table, the tokens handed out
Out(r, u, toks) == [res |-> r, users |-> u, issued |-> toks]

\* ------------------------------------------------------ authorization gate
\* authHeader.startsWith('Bearer ')
startsWithBearer(authHeader) == Len(authHeader) >= 2 /\ authHeader[1] = "Bearer"

\* the gate without the check of the payload
authMiddleware_ActiveOnly(route, headers) ==
  IF "authorization" \notin DOMAIN headers
     \/ ~startsWithBearer(headers.authorization)
  THEN [next |-> FALSE, user |-> Null, res |-> Fail(route, 401, AuthRequired)]
  ELSE LET token == headers.authorization[2]
           payload == verifyToken(token)
       IN IF payload = Null \/ getUserByEmail(users, payload.email) = Null
          THEN [next |-> FALSE, user |-> Null,
                res |-> Fail(route, 401, SessionExpired)]
          ELSE [next |-> TRUE, user |-> payload, res |-> Null]

authMiddleware_NoVerify(route, headers) ==
  IF "authorization" \notin DOMAIN headers
     \/ ~startsWithBearer(headers.authorization)
  THEN [next |-> FALSE, user |-> Null, res |-> Fail(route, 401, AuthRequired)]
  ELSE [next |-> TRUE, user |-> headers.authorization[2].payload, res |-> Null]

authMiddleware(route, headers) ==
  IF "authorization" \notin DOMAIN headers
     \/ ~startsWithBearer(headers.authorization)
  THEN [next |-> FALSE, user |-> Null, res |-> Fail(route, 401, AuthRequired)]
  ELSE LET token == headers.authorization[2]
           payload == verifyToken(token)
       IN IF payload = Null
          THEN [next |-> FALSE, user |-> Null,
                res |-> Fail(route, 401, SessionExpired)]
          ELSE [next |-> TRUE, user |-> payload, res |-> Null]

\* --------------------------------------------------------------- /api/auth
\* validate(loginSchema, body): email min 1, password min 6
loginSchema(body) ==
  /\ "email" \in DOMAIN body /\ Len(body.email) >= 1
  /\ "password" \in DOMAIN body /\ Len(body.password) >= MinPasswordLength

verifyCredentials(u, email, password) ==
  LET user == getUserByEmail(u, email)
  IN IF user = Null THEN Done(u, Null)
     ELSE IF ~comparePassword(password, user.passwordHash) THEN Done(u, Null)
     ELSE Done(updateLastLogin(u, user.id).users, user)

PostAuthLogin(req) ==
  LET route == "POST /auth/login"
  IN IF ~loginSchema(req.body)
     THEN Out(Fail(route, 400, "Invalid input"), users, issued)
     ELSE
       LET vc == verifyCredentials(users, req.body.email, req.body.password)
           user == vc.value
       IN IF user = Null
          THEN Out(Fail(route, 401, "The email or password you entered is incorrect"),
                   vc.users, issued)
          ELSE
            LET token == generateToken(user)
            IN Out(Json(route, 200,
                        [success |-> TRUE,
                         user |-> [id |-> user.id, email |-> user.email,
                                   name |-> user.name, role |-> user.role,
                                   mustChangePassword |-> user.mustChangePassword],
                         token |-> token]),
                   vc.users, issued \cup {token})

PostAuthLogout(req) ==
  LET route == "POST /auth/logout"
      gate == authMiddleware(route, req.headers)
  IN IF ~gate.next THEN Out(gate.res, users, issued)
     ELSE Out(Json(route, 200, [success |-> TRUE]), users, issued)

GetAuthMe(req) ==
  LET route == "GET /auth/me"
      gate == authMiddleware(route, req.headers)
  IN IF ~gate.next THEN Out(gate.res, users, issued)
     ELSE
       LET user == getUserById(users, gate.user.id)
       IN IF user = Null
          THEN Out(Fail(route, 404, "User not found"), users, issued)
          ELSE Out(Json(route, 200,
                        [id |-> user.id, email |-> user.email, name |-> user.name,
                         role |-> user.role,
                         mustChangePassword |-> user.mustChangePassword]),
                   users, issued)

\* if (email): the string is neither absent, null nor empty
Truthy(v) == v \notin {Undefined, NULL, ""}

PutAuthProfile(req) ==
  LET route == "PUT /auth/profile"
      gate == authMiddleware(route, req.headers)
      email == Get(req.body, "email")
  IN IF ~gate.next THEN Out(gate.res, users, issued)
     ELSE
       LET existingUser == IF Truthy(email) THEN getUserByEmail(users, email) ELSE Null
       IN IF Truthy(email) /\ existingUser # Null /\ existingUser.id # gate.user.id
          THEN Out(Fail(route, 400, "This email is already in use"), users, issued)
          ELSE
            LET up == updateUser(users, gate.user.id,
                                 Restrict(req.body, DOMAIN req.body \cap {"email", "name"}))
                updated == up.value
            IN IF up.threw
               THEN Out(Fail(route, 500, "Could not update profile"), up.users, issued)
               ELSE IF updated = Null
               THEN Out(Fail(route, 404, "User not found"), up.users, issued)
               ELSE
                 LET token == generateToken(updated)
                 IN Out(Json(route, 200,
                             [success |-> TRUE,
                              user |-> [id |-> updated.id, email |-> updated.email,
                                        name |-> updated.name, role |-> updated.role],
                              token |-> token]),
                        up.users, issued \cup {token})

PutAuthPassword(req) ==
  LET route == "PUT /auth/password"
      gate == authMiddleware(route, req.headers)
      currentPassword == Get(req.body, "currentPassword")
      newPassword == Get(req.body, "newPassword")
  IN IF ~gate.next THEN Out(gate.res, users, issued)
     ELSE IF ~Truthy(currentPassword) \/ ~Truthy(newPassword)
     THEN Out(Fail(route, 400, "Current password and new password are required"),
              users, issued)
     ELSE IF Len(newPassword) < MinPasswordLength
     THEN Out(Fail(route, 400, "New password must be at least 6 characters"),
              users, issued)
     ELSE
       LET user == getUserByEmail(users, gate.user.email)
       IN IF user = Null
          THEN Out(Fail(route, 404, "User not found"), users, issued)
          ELSE IF ~comparePassword(currentPassword, user.passwordHash)
          THEN Out(Fail(route, 401, "Current password is incorrect"), users, issued)
          ELSE Out(Json(route, 200, [success |-> TRUE]),
                   updateUserPassword(users, user.id, hashPassword(newPassword)).users,
                   issued)

\* -------------------------------------------------------------- /api/users
\* `user-${uuidv4()}`: an id no row has
NewUserId(u) == Cardinality(DOMAIN u) + 1

GetUsers(req) ==
  LET route == "GET /users"
      gate == authMiddleware(route, req.headers)
  IN IF ~gate.next THEN Out(gate.res, users, issued)
     ELSE Out(Json(route, 200, [list |-> getUsers(users)]), users, issued)

GetUsersId(req) ==
  LET route == "GET /users/:id"
      gate == authMiddleware(route, req.headers)
  IN IF ~gate.next THEN Out(gate.res, users, issued)
     ELSE
       LET user == getUserById(users, req.params.id)
       IN IF user = Null
          THEN Out(Fail(route, 404, "User not found"), users, issued)
          ELSE Out(Json(route, 200, user), users, issued)

PostUsers(req) ==
  LET route == "POST /users"
      gate == authMiddleware(route, req.headers)
      email == Get(req.body, "email")
      password == Get(req.body, "password")
      name == Get(req.body, "name")
      role == Get(req.body, "role")
  IN IF ~gate.next THEN Out(gate.res, users, issued)
     ELSE IF ~Truthy(email) \/ ~Truthy(password)
     THEN Out(Fail(route, 400, "Email and password are required"), users, issued)
     ELSE IF Len(password) < MinPasswordLength
     THEN Out(Fail(route, 400, "Password must be at least 6 characters"), users, issued)
     ELSE IF getUserByEmail(users, email) # Null
     THEN Out(Fail(route, 400, "A user with this email already exists"), users, issued)
     ELSE
       LET user == [id |-> NewUserId(users),
                    email |-> toLowerCase(email),
                    passwordHash |-> hashPassword(password),
                    name |-> OrElse(name, NULL),
                    role |-> OrElse(role, "admin"),
                    mustChangePassword |-> TRUE]
           created == createUser(users, user)
       IN IF created.threw
          THEN Out(Fail(route, 500, "Could not create user"), created.users, issued)
          ELSE Out(Json(route, 201, [success |-> TRUE, user |-> created.value]),
                   created.users, issued)

\* req.params.id === req.user.id, taken for super admins only
SelfTarget_ExemptsSuperAdmin(req, user) ==
  req.params.id = user.id /\ user.role # "super_admin"

\* req.params.id === req.user.id
SelfTarget(req, user) == req.params.id = user.id

PutUsersId(req) ==
  LET route == "PUT /users/:id"
      gate == authMiddleware(route, req.headers)
      id == req.params.id
      email == Get(req.body, "email")
  IN IF ~gate.next THEN Out(gate.res, users, issued)
     ELSE IF SelfTarget(req, gate.user)
             /\ ("role" \in DOMAIN req.body \/ "isActive" \in DOMAIN req.body)
     THEN Out(Fail(route, 400, "You cannot change your own role or deactivate yourself"),
              users, issued)
     ELSE
       LET existingUser == IF Truthy(email) THEN getUserByEmail(users, email) ELSE Null
       IN IF Truthy(email) /\ existingUser # Null /\ existingUser.id # id
          THEN Out(Fail(route, 400, "This email is already in use"), users, issued)
          ELSE
            LET up == updateUser(users, id,
                        Restrict(req.body,
                                 DOMAIN req.body \cap {"email", "name", "role", "isActive"}))
            IN IF up.threw
               THEN Out(Fail(route, 500, "Could not update user"), up.users, issued)
               ELSE IF up.value = Null
               THEN Out(Fail(route, 404, "User not found"), up.users, issued)
               ELSE Out(Json(route, 200, up.value), up.users, issued)

PutUsersIdResetPassword(req) ==
  LET route == "PUT /users/:id/reset-password"
      gate == authMiddleware(route, req.headers)
      newPassword == Get(req.body, "newPassword")
  IN IF ~gate.next THEN Out(gate.res, users, issued)
     ELSE IF ~Truthy(newPassword) \/ Len(newPassword) < MinPasswordLength
     THEN Out(Fail(route, 400, "New password must be at least 6 characters"),
              users, issued)
     ELSE
       LET user == getUserById(users, req.params.id)
       IN IF user = Null
          THEN Out(Fail(route, 404, "User not found"), users, issued)
          ELSE
            LET reset == updateUserPassword(users, user.id, hashPassword(newPassword))
                marked == updateUser(reset.users, user.id, [k \in {} |-> NULL])
            IN IF marked.threw
               THEN Out(Fail(route, 500, "Could not reset password"), marked.users, issued)
               ELSE Out(Json(route, 200, [success |-> TRUE]), marked.users, issued)

DeleteUsersId(req) ==
  LET route == "DELETE /users/:id"
      gate == authMiddleware(route, req.headers)
  IN IF ~gate.next THEN Out(gate.res, users, issued)
     ELSE IF SelfTarget(req, gate.user)
     THEN Out(Fail(route, 400, "You cannot deactivate your own account"), users, issued)
     ELSE
       LET deleted == deleteUser(users, req.params.id)
       IN IF ~deleted.value
          THEN Out(Fail(route, 404, "User not found"), deleted.users, issued)
          ELSE Out(Json(route, 200, [success |-> TRUE]), deleted.users, issued)

\* ------------------------------------------------------- image lifecycle
\* the files the repository ships under public/assets
StaticAssets == {"/assets/posters/sunday-service.jpg"}

\* the paths POST /api/upload can hand out, by upload directory
UploadPaths ==
  [events |-> {"/uploads/events/a.png", "/uploads/events/b.png"},
   theme |-> {"/uploads/theme/a.png"},
   services |-> {}]

\* String.prototype.startsWith('/uploads/') on the strings of the model
startsWithUploads(s) ==
  s \in UNION {UploadPaths[d] : d \in DOMAIN UploadPaths}
         \cup {"/uploads/a.png", "/uploads/b.png"}

\* what can go wrong outside the handler's control during one request
NoFaults == [unlink |-> FALSE, db |-> FALSE, stop |-> FALSE]
Faults == {[NoFaults EXCEPT ![k] = TRUE] : k \in DOMAIN NoFaults} \cup {NoFaults}

\* fs.unlinkSync was called and threw inside deleteImageFile
unlinkRaised(fs, imageUrl, faults) ==
  /\ Truthy(imageUrl) /\ startsWithUploads(imageUrl)
  /\ imageUrl \in fs /\ faults.unlink

\* no call of deleteImageFile
NotDeleted(fs) == [files |-> fs, logged |-> FALSE, raised |-> FALSE]

\* deleteImageFile without its try/catch: the error of unlinkSync reaches the
\* caller
deleteImageFile_Uncaught(fs, imageUrl, faults) ==
  IF ~Truthy(imageUrl) \/ ~startsWithUploads(imageUrl) THEN NotDeleted(fs)
  ELSE IF imageUrl \in fs /\ ~faults.unlink
  THEN [NotDeleted(fs) EXCEPT !.files = fs \ {imageUrl}]
  ELSE [NotDeleted(fs) EXCEPT !.raised = unlinkRaised(fs, imageUrl, faults)]

\* the file at imageUrl is removed when it is under /uploads/ and exists; an
\* error of unlinkSync is caught and logged, never raised to the caller
deleteImageFile(fs, imageUrl, faults) ==
  IF ~Truthy(imageUrl) \/ ~startsWithUploads(imageUrl) THEN NotDeleted(fs)
  ELSE IF imageUrl \in fs /\ ~faults.unlink
  THEN [NotDeleted(fs) EXCEPT !.files = fs \ {imageUrl}]
  ELSE [NotDeleted(fs) EXCEPT !.logged = unlinkRaised(fs, imageUrl, faults)]

\* ------------------------------------------------------------ validation
\* the keys of a z.object: z.string().min(1, message), z.enum(values) and
\* z.string().optional()
Min(field, message) ==
  [field |-> field, optional |-> FALSE, enum |-> {}, min |-> message]

Enum(field, values) ==
  [field |-> field, optional |-> FALSE, enum |-> values, min |-> ""]

Optional(field) == [field |-> field, optional |-> TRUE, enum |-> {}, min |-> ""]

\* the message of the issue safeParse raises for one key, "" when it has none
IssueOf(body, f) ==
  LET v == Get(body, f.field)
  IN IF v = Undefined THEN (IF f.optional THEN "" ELSE "Required")
     ELSE IF v = NULL THEN "Expected string, received null"
     ELSE IF f.enum # {} THEN (IF v \in f.enum THEN "" ELSE "Invalid enum value")
     ELSE IF f.min # "" /\ v = "" THEN f.min
     ELSE ""

\* validate(schema, data): the issues as { field, message } in the order of
\* the schema's keys, or the parsed keys of the data
validate_NoErrors(shape, body) ==
  [valid |-> \A i \in DOMAIN shape : IssueOf(body, shape[i]) = "",
   errors |-> <<>>,
   data |-> Restrict(body, DOMAIN body \cap {shape[i].field : i \in DOMAIN shape})]

validate(shape, body) ==
  LET errors ==
        SelectSeq([i \in DOMAIN shape |->
                     [field |-> shape[i].field,
                      message |-> IssueOf(body, shape[i])]],
                  LAMBDA e : e.message # "")
  IN [valid |-> errors = <<>>,
      errors |-> errors,
      data |-> Restrict(body, DOMAIN body \cap {shape[i].field : i \in DOMAIN shape})]

posterSchema(body) ==
  validate(<<Min("title", "Title is required"),
             Enum("category", {"service", "event", "theme"}),
             Optional("imageUrl"), Optional("description"),
             Optional("serviceTime")>>, body)

announcementSchema(body) ==
  validate(<<Min("title", "Title is required"), Min("date", "Date is required"),
             Min("description", "Description is required"),
             Min("icon", "Icon is required"), Min("badge", "Badge is required"),
             Enum("badgeVariant", {"default", "secondary", "outline"})>>, body)

eventSchema(body) ==
  validate(<<Min("title", "Title is required"), Min("date", "Date is required"),
             Min("time", "Time is required"),
             Min("description", "Description is required"),
             Min("imageUrl", "Image is required")>>, body)

themeSchema(body) ==
  validate(<<Min("title", "Title is required"), Optional("description"),
             Min("posterPath", "Poster path is required")>>, body)

CheckInput == "Please check your input"

\* res.status(400).json({ error: 'Please check your input', details })
Invalid(route, errors) ==
  [route |-> route, status |-> 400, error |-> CheckInput,
   body |-> [details |-> errors]]

\* what a content handler leaves behind: the response, its table, the disk,
\* and whether unlinkSync threw inside deleteImageFile
Reply(r, rows, fs) == [res |-> r, rows |-> rows, files |-> fs, unlinkThrew |-> FALSE]

\* the process stopped before it answered
NoResponse(route) == Fail(route, 0, "")

\* { id, ...validation.data, createdAt, updatedAt }
WithId(id, data) ==
  [k \in DOMAIN data \cup {"id"} |-> IF k = "id" THEN id ELSE data[k]]

\* ------------------------------------------------------------ /api/posters
GetPosters(req) ==
  Reply(Json("GET /posters", 200, [list |-> getPosters(posters)]), posters, files)

GetPostersId(req) ==
  LET route == "GET /posters/:id"
      poster == getPosterById(posters, req.params.id)
  IN IF poster = Null THEN Reply(Fail(route, 404, "Poster not found"), posters, files)
     ELSE Reply(Json(route, 200, poster), posters, files)

PostPosters(req, uuid, faults) ==
  LET route == "POST /posters"
      gate == authMiddleware(route, req.headers)
      validation == posterSchema(req.body)
  IN IF ~gate.next THEN Reply(gate.res, posters, files)
     ELSE IF ~validation.valid THEN Reply(Invalid(route, validation.errors), posters, files)
     ELSE
       LET created == createPoster(posters, WithId(uuid, validation.data))
       IN IF faults.db \/ created.threw
          THEN Reply(Fail(route, 500, "Could not create poster. Please try again."),
                     posters, files)
          ELSE Reply(Json(route, 201, created.value), created.rows, files)

PutPostersId(req, faults) ==
  LET route == "PUT /posters/:id"
      gate == authMiddleware(route, req.headers)
      validation == posterSchema(req.body)
      existing == getPosterById(posters, req.params.id)
  IN IF ~gate.next THEN Reply(gate.res, posters, files)
     ELSE IF ~validation.valid THEN Reply(Invalid(route, validation.errors), posters, files)
     ELSE IF existing = Null THEN Reply(Fail(route, 404, "Poster not found"), posters, files)
     ELSE
       LET imageUrl == Get(validation.data, "imageUrl")
           replaced == Truthy(imageUrl) /\ Truthy(existing.imageUrl)
                         /\ imageUrl # existing.imageUrl
           deletion == IF replaced
                       THEN deleteImageFile(files, existing.imageUrl, faults)
                       ELSE NotDeleted(files)
           fs == deletion.files
           threw == deletion.logged \/ deletion.raised
           updated == updatePoster(posters, req.params.id, validation.data)
       IN IF faults.stop
          THEN [Reply(NoResponse(route), posters, fs) EXCEPT !.unlinkThrew = threw]
          ELSE IF deletion.raised \/ faults.db \/ updated.threw
          THEN [Reply(Fail(route, 500, "Could not update poster. Please try again."),
                      posters, fs) EXCEPT !.unlinkThrew = threw]
          ELSE [Reply(Json(route, 200, updated.value), updated.rows, fs)
                  EXCEPT !.unlinkThrew = threw]

DeletePostersId(req, faults) ==
  LET route == "DELETE /posters/:id"
      gate == authMiddleware(route, req.headers)
      deleted == deletePoster(posters, req.params.id)
  IN IF ~gate.next THEN Reply(gate.res, posters, files)
     ELSE IF faults.db
     THEN Reply(Fail(route, 500, "Could not delete poster. Please try again."),
                posters, files)
     ELSE IF ~deleted.value THEN Reply(Fail(route, 404, "Poster not found"), posters, files)
     ELSE Reply(Json(route, 200, [success |-> TRUE]), deleted.rows, files)

\* ------------------------------------------------------ /api/announcements
GetAnnouncements(req) ==
  Reply(Json("GET /announcements", 200, [list |-> getAnnouncements(announcements)]),
        announcements, files)

GetAnnouncementsId(req) ==
  LET route == "GET /announcements/:id"
      announcement == getAnnouncementById(announcements, req.params.id)
  IN IF announcement = Null
     THEN Reply(Fail(route, 404, "Announcement not found"), announcements, files)
     ELSE Reply(Json(route, 200, announcement), announcements, files)

PostAnnouncements(req, uuid, faults) ==
  LET route == "POST /announcements"
      gate == authMiddleware(route, req.headers)
      validation == announcementSchema(req.body)
  IN IF ~gate.next THEN Reply(gate.res, announcements, files)
     ELSE IF ~validation.valid
     THEN Reply(Invalid(route, validation.errors), announcements, files)
     ELSE
       LET announcement == WithId(uuid, validation.data)
           created == createAnnouncement(announcements, announcement)
       IN IF faults.db \/ created.threw
          THEN Reply(Fail(route, 500, "Could not create announcement. Please try again."),
                     announcements, files)
          ELSE Reply(Json(route, 201, announcement), created.rows, files)

PutAnnouncementsId(req, faults) ==
  LET route == "PUT /announcements/:id"
      gate == authMiddleware(route, req.headers)
      validation == announcementSchema(req.body)
  IN IF ~gate.next THEN Reply(gate.res, announcements, files)
     ELSE IF ~validation.valid
     THEN Reply(Invalid(route, validation.errors), announcements, files)
     ELSE
       LET updated == updateAnnouncement(announcements, req.params.id, validation.data)
       IN IF faults.db \/ updated.threw
          THEN Reply(Fail(route, 500, "Could not update announcement. Please try again."),
                     announcements, files)
          ELSE IF updated.value = Null
          THEN Reply(Fail(route, 404, "Announcement not found"), announcements, files)
          ELSE Reply(Json(route, 200, updated.value), updated.rows, files)

DeleteAnnouncementsId(req, faults) ==
  LET route == "DELETE /announcements/:id"
      gate == authMiddleware(route, req.headers)
      deleted == deleteAnnouncement(announcements, req.params.id)
  IN IF ~gate.next THEN Reply(gate.res, announcements, files)
     ELSE IF faults.db
     THEN Reply(Fail(route, 500, "Could not delete announcement. Please try again."),
                announcements, files)
     ELSE IF ~deleted.value
     THEN Reply(Fail(route, 404, "Announcement not found"), announcements, files)
     ELSE Reply(Json(route, 200, [success |-> TRUE]), deleted.rows, files)

\* ------------------------------------------------------------- /api/events
GetEvents(req) ==
  Reply(Json("GET /events", 200, [list |-> getEvents(events)]), events, files)

GetEventsId(req) ==
  LET route == "GET /events/:id"
      event == getEventById(events, req.params.id)
  IN IF event = Null THEN Reply(Fail(route, 404, "Event not found"), events, files)
     ELSE Reply(Json(route, 200, event), events, files)

PostEvents(req, uuid, faults) ==
  LET route == "POST /events"
      gate == authMiddleware(route, req.headers)
      validation == eventSchema(req.body)
  IN IF ~gate.next THEN Reply(gate.res, events, files)
     ELSE IF ~validation.valid THEN Reply(Invalid(route, validation.errors), events, files)
     ELSE
       LET event == WithId(uuid, validation.data)
           created == createEvent(events, event)
       IN IF faults.db \/ created.threw
          THEN Reply(Fail(route, 500, "Could not create event. Please try again."),
                     events, files)
          ELSE Reply(Json(route, 201, event), created.rows, files)

PutEventsId(req, faults) ==
  LET route == "PUT /events/:id"
      gate == authMiddleware(route, req.headers)
      validation == eventSchema(req.body)
      existing == getEventById(events, req.params.id)
  IN IF ~gate.next THEN Reply(gate.res, events, files)
     ELSE IF ~validation.valid THEN Reply(Invalid(route, validation.errors), events, files)
     ELSE IF existing = Null THEN Reply(Fail(route, 404, "Event not found"), events, files)
     ELSE
       LET imageUrl == Get(validation.data, "imageUrl")
           replaced == Truthy(imageUrl) /\ Truthy(existing.imageUrl)
                         /\ imageUrl # existing.imageUrl
           deletion == IF replaced
                       THEN deleteImageFile(files, existing.imageUrl, faults)
                       ELSE NotDeleted(files)
           fs == deletion.files
           threw == deletion.logged \/ deletion.raised
           updated == updateEvent(events, req.params.id, validation.data)
       IN IF faults.stop
          THEN [Reply(NoResponse(route), events, fs) EXCEPT !.unlinkThrew = threw]
          ELSE IF deletion.raised \/ faults.db \/ updated.threw
          THEN [Reply(Fail(route, 500, "Could not update event. Please try again."),
                      events, fs) EXCEPT !.unlinkThrew = threw]
          ELSE [Reply(Json(route, 200, updated.value), updated.rows, fs)
                  EXCEPT !.unlinkThrew = threw]

DeleteEventsId(req, faults) ==
  LET route == "DELETE /events/:id"
      gate == authMiddleware(route, req.headers)
      deleted == deleteEvent(events, req.params.id)
  IN IF ~gate.next THEN Reply(gate.res, events, files)
     ELSE IF faults.db
     THEN Reply(Fail(route, 500, "Could not delete event. Please try again."),
                events, files)
     ELSE IF ~deleted.value THEN Reply(Fail(route, 404, "Event not found"), events, files)
     ELSE Reply(Json(route, 200, [success |-> TRUE]), deleted.rows, files)

\* -------------------------------------------------------------- /api/theme
PostTheme(req, uuid, faults) ==
  LET route == "POST /theme"
      gate == authMiddleware(route, req.headers)
      validation == themeSchema(req.body)
  IN IF ~gate.next THEN Reply(gate.res, themes, files)
     ELSE IF ~validation.valid THEN Reply(Invalid(route, validation.errors), themes, files)
     ELSE
       LET theme == WithId(uuid, validation.data)
           created == createTheme(themes, theme)
       IN IF faults.db \/ created.threw
          THEN Reply(Fail(route, 500, "Could not create theme. Please try again."),
                     themes, files)
          ELSE Reply(Json(route, 201, theme), created.rows, files)

PutThemeId(req, faults) ==
  LET route == "PUT /theme/:id"
      gate == authMiddleware(route, req.headers)
      validation == themeSchema(req.body)
      existing == getThemeById(themes, req.params.id)
  IN IF ~gate.next THEN Reply(gate.res, themes, files)
     ELSE IF ~validation.valid THEN Reply(Invalid(route, validation.errors), themes, files)
     ELSE IF existing = Null THEN Reply(Fail(route, 404, "Theme not found"), themes, files)
     ELSE
       LET posterPath == Get(validation.data, "posterPath")
           replaced == Truthy(posterPath) /\ Truthy(existing.posterPath)
                         /\ posterPath # existing.posterPath
           deletion == IF replaced
                       THEN deleteImageFile(files, existing.posterPath, faults)
                       ELSE NotDeleted(files)
           fs == deletion.files
           threw == deletion.logged \/ deletion.raised
           updated == updateTheme(themes, req.params.id, validation.data)
       IN IF faults.stop
          THEN [Reply(NoResponse(route), themes, fs) EXCEPT !.unlinkThrew = threw]
          ELSE IF deletion.raised \/ faults.db \/ updated.threw
          THEN [Reply(Fail(route, 500, "Could not update theme. Please try again."),
                      themes, fs) EXCEPT !.unlinkThrew = threw]
          ELSE [Reply(Json(route, 200, updated.value), updated.rows, fs)
                  EXCEPT !.unlinkThrew = threw]

DeleteThemeId(req, faults) ==
  LET route == "DELETE /theme/:id"
      gate == authMiddleware(route, req.headers)
      existing == getThemeById(themes, req.params.id)
      deleted == deleteTheme(themes, req.params.id)
  IN IF ~gate.next THEN Reply(gate.res, themes, files)
     ELSE IF faults.db
     THEN Reply(Fail(route, 500, "Could not delete theme. Please try again."),
                themes, files)
     ELSE IF ~deleted.value THEN Reply(Fail(route, 404, "Theme not found"), themes, files)
     ELSE IF faults.stop THEN Reply(NoResponse(route), deleted.rows, files)
     ELSE
       LET removes == existing # Null /\ Truthy(existing.posterPath)
           deletion == IF removes
                       THEN deleteImageFile(files, existing.posterPath, faults)
                       ELSE NotDeleted(files)
           threw == deletion.logged \/ deletion.raised
       IN IF deletion.raised
          THEN [Reply(Fail(route, 500, "Could not delete theme. Please try again."),
                      deleted.rows, deletion.files) EXCEPT !.unlinkThrew = threw]
          ELSE [Reply(Json(route, 200, [success |-> TRUE]), deleted.rows,
                      deletion.files) EXCEPT !.unlinkThrew = threw]

\* ------------------------------------------------------------- /api/upload
FileSizeLimit == 5 * 1024 * 1024

\* fileFilter: allowedTypes.includes(file.mimetype)
fileFilter(file) ==
  file.mimetype \in {"image/jpeg", "image/jpg", "image/png", "image/webp"}

\* categoryMap[category], Undefined for a category the map does not hold
categoryMap(category) ==
  IF category \in {"services", "events", "theme"} THEN category ELSE Undefined

\* upload.single('file') leaving on disk what it wrote before the stream
\* passed the size limit
upload_KeepsPartial(fs, body, file, path) ==
  IF file = Null THEN [error |-> "", files |-> fs, stored |-> FALSE]
  ELSE IF ~fileFilter(file)
  THEN [error |-> "Only image files (JPEG, PNG, WebP) are allowed", files |-> fs,
        stored |-> FALSE]
  ELSE IF categoryMap(Get(body, "category")) = Undefined
  THEN [error |-> "Invalid category. Must be one of: services, events, theme",
        files |-> fs, stored |-> FALSE]
  ELSE IF file.size > FileSizeLimit
  THEN [error |-> "File is too large. Maximum size is 5MB.",
        files |-> fs \cup {path}, stored |-> FALSE]
  ELSE [error |-> "", files |-> fs \cup {path}, stored |-> TRUE]

\* upload.single('file'): the filter, then the destination, then the write,
\* which multer undoes when the stream passes the size limit
upload(fs, body, file, path) ==
  IF file = Null THEN [error |-> "", files |-> fs, stored |-> FALSE]
  ELSE IF ~fileFilter(file)
  THEN [error |-> "Only image files (JPEG, PNG, WebP) are allowed", files |-> fs,
        stored |-> FALSE]
  ELSE IF categoryMap(Get(body, "category")) = Undefined
  THEN [error |-> "Invalid category. Must be one of: services, events, theme",
        files |-> fs, stored |-> FALSE]
  ELSE IF file.size > FileSizeLimit
  THEN [error |-> "File is too large. Maximum size is 5MB.",
        files |-> (fs \cup {path}) \ {path}, stored |-> FALSE]
  ELSE [error |-> "", files |-> fs \cup {path}, stored |-> TRUE]

\* `path` is `/uploads/${dirName}/${uuidv4()}${ext}`, a name no file has
PostUpload(req, file, path) ==
  LET route == "POST /upload"
      gate == authMiddleware(route, req.headers)
      done == upload(files, req.body, file, path)
  IN IF ~gate.next THEN Reply(gate.res, EmptyTable, files)
     ELSE IF done.error # "" THEN Reply(Fail(route, 400, done.error), EmptyTable, done.files)
     ELSE IF ~done.stored
     THEN Reply(Fail(route, 400, "No file was uploaded"), EmptyTable, done.files)
     ELSE Reply(Json(route, 200, [success |-> TRUE, url |-> path]), EmptyTable, done.files)

\* --------------------------------------------------------------- migrate.js
LedgerFile == "004_create_migrations_table.sql"

\* the migration files, as Array.prototype.sort orders their names
FileOrder ==
  <<"001_create_posters_table.sql", "002_create_announcements_table.sql",
    "003_create_events_table.sql", LedgerFile, "005_create_users_table.sql">>

MigrationFiles == {FileOrder[i] : i \in DOMAIN FileOrder}

\* the table each migration file creates
TableOf ==
  [f \in MigrationFiles |->
     CASE f = FileOrder[1] -> "posters"
       [] f = FileOrder[2] -> "announcements"
       [] f = FileOrder[3] -> "events"
       [] f = FileOrder[4] -> "migrations"
       [] OTHER -> "users"]

Range(seq) == {seq[i] : i \in DOMAIN seq}

\* files.sort() over a set of the names above
SortedNames(S) == SelectSeq(FileOrder, LAMBDA f : f \in S)

\* the statements of a migration file, in the order they run
Statements(f) ==
  IF f = LedgerFile THEN <<<<f, "CREATE TABLE">>>>
  ELSE <<<<f, "CREATE TABLE">>, <<f, "CREATE INDEX">>>>

FullSchema(S) == UNION {Range(Statements(f)) : f \in S}

\* the files whose every statement the database holds
Applied(sch) == {f \in MigrationFiles : Range(Statements(f)) \subseteq sch}

\* what can go wrong during one run of a command: the statement of a
\* migration file that raises, the statement of seed or clear that raises
\* (0: none), and whether the SELECT on the migrations table raises
NoTrouble == [file |-> "", at |-> 0, statement |-> 0, select |-> FALSE]

\* SELECT name FROM migrations ORDER BY id, [] when the query raises
getExecutedMigrations(led, trouble) == IF trouble.select THEN <<>> ELSE led

\* getMigrationFiles without the sort, the directory listed last name first
getMigrationFiles_Unsorted(dir) ==
  LET sorted == SortedNames(dir \ {LedgerFile})
  IN [i \in DOMAIN sorted |-> sorted[Len(sorted) + 1 - i]]

\* the .sql files of the directory but the ledger's own, sorted
getMigrationFiles(dir) == SortedNames(dir \ {LedgerFile})

\* the statements of `filename` that ran before one raised, and whether one did
RunSql(db, filename, trouble) ==
  LET n == IF trouble.file = filename THEN trouble.at - 1 ELSE Len(Statements(filename))
      ran == {Statements(filename)[i] : i \in 1..n}
      sql == [db EXCEPT !.schema = @ \cup ran]
  IN IF trouble.file = filename THEN [threw |-> TRUE, db |-> sql]
     ELSE IF filename \in Range(db.ledger) THEN [threw |-> TRUE, db |-> sql]
     ELSE [threw |-> FALSE, db |-> [sql EXCEPT !.ledger = Append(@, filename)]]

\* runMigration without BEGIN and ROLLBACK: every statement commits by itself
runMigration_Autocommit(db, filename, trouble) ==
  LET tx == RunSql(db, filename, trouble)
  IN [ok |-> ~tx.threw, db |-> tx.db]

\* BEGIN; sql; INSERT INTO migrations; COMMIT, or ROLLBACK when one raises
runMigration(db, filename, trouble) ==
  LET tx == RunSql(db, filename, trouble)
  IN IF tx.threw THEN [ok |-> FALSE, db |-> db]
     ELSE [ok |-> TRUE, db |-> tx.db]

\* for (const file of pending): stop at the first migration that fails
RECURSIVE RunPending(_, _, _)
RunPending(db, pending, trouble) ==
  IF pending = <<>> THEN [db |-> db, ran |-> <<>>, failed |-> ""]
  ELSE
    LET first == runMigration(db, Head(pending), trouble)
    IN IF ~first.ok THEN [db |-> first.db, ran |-> <<>>, failed |-> Head(pending)]
       ELSE LET rest == RunPending(first.db, Tail(pending), trouble)
            IN [rest EXCEPT !.ran = <<Head(pending)>> \o @]

\* migrationFiles.filter(file => !executed.includes(file))
Pending(db, dir, trouble) ==
  SelectSeq(getMigrationFiles(dir),
            LAMBDA f : f \notin Range(getExecutedMigrations(db.ledger, trouble)))

\* ensureMigrationsTable creates the ledger's table when it is missing
ensureMigrationsTable(db) ==
  [db EXCEPT !.schema = @ \cup Range(Statements(LedgerFile))]

migrate(db, dir, trouble) ==
  LET ready == ensureMigrationsTable(db)
  IN RunPending(ready, Pending(ready, dir, trouble), trouble)

\* rollback without BEGIN and ROLLBACK: a DROP TABLE that ran stays when the
\* DELETE raises
rollback_Autocommit(db, trouble) ==
  IF db.ledger = <<>> \/ trouble.statement = 1 THEN db
  ELSE LET migrationName == db.ledger[Len(db.ledger)]
           dropped == [db EXCEPT !.schema = @ \ Range(Statements(migrationName))]
       IN IF trouble.statement = 2 THEN dropped
          ELSE [dropped EXCEPT !.ledger = SubSeq(@, 1, Len(@) - 1)]

\* rollback: BEGIN; drop the table of the last name of the ledger (statement
\* 1); delete the name (statement 2); COMMIT, or ROLLBACK when one raises
rollback(db, trouble) ==
  IF db.ledger = <<>> \/ trouble.statement # 0 THEN db
  ELSE LET migrationName == db.ledger[Len(db.ledger)]
       IN [schema |-> db.schema \ Range(Statements(migrationName)),
           ledger |-> SubSeq(db.ledger, 1, Len(db.ledger) - 1)]

\* ------------------------------------------------------------------ seed.js
samplePosters ==
  <<[title |-> "Sunday Service", category |-> "service",
     image_url |-> "/assets/posters/sunday-service.jpg",
     description |-> "Join us every Sunday for worship and the Word"],
    [title |-> "Midweek Service", category |-> "service",
     image_url |-> "/assets/posters/midweek-service.jpg",
     description |-> "Midweek power service - Wednesdays"],
    [title |-> "Special Service", category |-> "service",
     image_url |-> "/assets/posters/special-service.jpg",
     description |-> "Special breakthrough service"],
    [title |-> "Theme of the Month - December 2025", category |-> "theme",
     image_url |-> "/assets/posters/theme-of-month.jpg",
     description |-> "Walking in Divine Restoration"]>>

sampleAnnouncements ==
  <<[title |-> "Sunday Service Time Change", date |-> "today",
     description |-> "Please note that our Sunday services now begin at 8:00 AM and 10:30 AM.",
     icon |-> "Clock", badge |-> "Important", badge_variant |-> "default"],
    [title |-> "Bible Study Registration", date |-> "today",
     description |-> "Registration for the new Bible study group is now open. Sign up at the information desk.",
     icon |-> "BookOpen", badge |-> "New", badge_variant |-> "secondary"]>>

sampleEvents ==
  <<[title |-> "Christmas Carol Service", date |-> "2025-12-24",
     time |-> "6:00 PM - 9:00 PM",
     description |-> "Join us for a special evening of Christmas carols and celebration.",
     image_url |-> "/assets/events/christmas-carol.jpg"],
    [title |-> "Crossover Night Service", date |-> "2025-12-31",
     time |-> "10:00 PM - 1:00 AM",
     description |-> "End the year in the presence of God as we cross into the new year together.",
     image_url |-> "/assets/events/crossover-night.jpg"]>>

\* the row seedAdmin inserts
adminRow ==
  [email |-> defaultAdmin.email,
   password_hash |-> hashPassword(defaultAdmin.password),
   name |-> defaultAdmin.name, role |-> defaultAdmin.role,
   must_change_password |-> FALSE, is_active |-> TRUE,
   last_login |-> <<>>, created_at |-> now, updated_at |-> now]

\* the defaults of the columns an INSERT of seed does not name
Defaults(table) ==
  IF table = "posters"
  THEN [is_active |-> TRUE, display_order |-> 0, created_at |-> now, updated_at |-> now]
  ELSE [is_active |-> TRUE, created_at |-> now, updated_at |-> now]

Inserts(table, samples) ==
  [i \in DOMAIN samples |->
     [op |-> "INSERT", table |-> table, row |-> samples[i] @@ Defaults(table)]]

\* the statements of seed between BEGIN and COMMIT
SeedStatements ==
  <<[op |-> "seedAdmin", table |-> "users", row |-> adminRow]>>
    \o Inserts("posters", samplePosters)
    \o Inserts("announcements", sampleAnnouncements)
    \o Inserts("events", sampleEvents)

\* the statements of clear between BEGIN and COMMIT
ClearStatements ==
  [i \in 1..4 |->
     [op |-> "DELETE",
      table |-> <<"posters", "announcements", "events", "users">>[i]]]

TableExists(sch, table) ==
  \E f \in MigrationFiles : TableOf[f] = table /\ Statements(f)[1] \in sch

\* `${kind}-${uuidv4()}`: an id no row of the table has
SeedId(table, t) ==
  IF table = "users" THEN NewUserId(t)
  ELSE table \o "-" \o ToString(Cardinality(DOMAIN t) + 1)

\* one statement on the tables `db`
Execute(db, st) ==
  LET t == db[st.table]
      id == SeedId(st.table, t)
      row == [id |-> id] @@ st.row
      inserted == [i \in DOMAIN t \cup {id} |-> IF i = id THEN row ELSE t[i]]
  IN CASE st.op = "DELETE" -> [db EXCEPT ![st.table] = EmptyTable]
       [] st.op = "seedAdmin" ->
            IF \E i \in DOMAIN t : t[i].email = st.row.email THEN db
            ELSE [db EXCEPT ![st.table] = inserted]
       [] OTHER -> [db EXCEPT ![st.table] = inserted]

\* the statements in turn and then COMMIT, up to the first that raises:
\* number trouble.statement, or one on a table the schema does not hold
RECURSIVE RunStatements(_, _, _, _, _)
RunStatements(db, sch, statements, k, trouble) ==
  IF k > Len(statements) THEN [threw |-> trouble.statement = k, db |-> db]
  ELSE IF trouble.statement = k \/ ~TableExists(sch, statements[k].table)
  THEN [threw |-> TRUE, db |-> db]
  ELSE RunStatements(Execute(db, statements[k]), sch, statements, k + 1, trouble)

\* seed and clear without BEGIN and ROLLBACK: every statement commits by itself
Transaction_Autocommit(db, sch, statements, trouble) ==
  RunStatements(db, sch, statements, 1, trouble)

\* BEGIN; the statements; COMMIT, or ROLLBACK when one raises
Transaction(db, sch, statements, trouble) ==
  LET tx == RunStatements(db, sch, statements, 1, trouble)
  IN IF tx.threw THEN [threw |-> TRUE, db |-> db] ELSE tx

seed(db, sch, trouble) == Transaction(db, sch, SeedStatements, trouble)

clear(db, sch, trouble) == Transaction(db, sch, ClearStatements, trouble)

\* ------------------------------------------------------------ request sets
Request(headers, id, body) ==
  [headers |-> headers, params |-> [id |-> id], body |-> body]

EmptyObject == [k \in {} |-> NULL]

LoginBodies ==
  {[email |-> e, password |-> p] : e \in EmailInputs, p \in PasswordInputs}
    \cup {[email |-> e] : e \in EmailInputs}

ProfileBodies ==
  {EmptyObject} \cup {[email |-> e] : e \in EmailInputs}
    \cup {[name |-> n] : n \in NameInputs}

PasswordBodies ==
  {[currentPassword |-> c, newPassword |-> n] :
     c \in PasswordInputs, n \in PasswordInputs}
    \cup {[newPassword |-> "changeme1"]}

PostUsersBodies ==
  {[email |-> e, password |-> "changeme1"] : e \in EmailInputs}
    \cup {[email |-> "Bob@wc.org", password |-> "abc"], [email |-> "Bob@wc.org"]}
    \cup {[email |-> "Bob@wc.org", password |-> "changeme1", role |-> r] :
            r \in RoleInputs}
    \cup {[email |-> "Bob@wc.org", password |-> "changeme1", name |-> n] :
            n \in NameInputs}

PutUsersBodies ==
  {EmptyObject}
    \cup {[email |-> e] : e \in EmailInputs}
    \cup {[name |-> n] : n \in NameInputs \cup {NULL}}
    \cup {[role |-> r] : r \in RoleInputs}
    \cup {[isActive |-> a] : a \in BOOLEAN}
    \cup {[role |-> r, isActive |-> a] : r \in {"admin"}, a \in BOOLEAN}

ResetBodies == {EmptyObject} \cup {[newPassword |-> n] : n \in PasswordInputs}

\* the requests a route is sent: every body and id under a token the server
\* has handed out, and one request under each header the gate turns away
Requests(ids, bodies) ==
  {Request(h, i, b) : h \in IssuedHeaders, i \in ids, b \in bodies}
    \cup {Request(h, CHOOSE i \in ids : TRUE, CHOOSE b \in bodies : TRUE) :
            h \in InvalidHeaders}

\* every header with every id and body
AllRequests(ids, bodies) ==
  {Request(h, i, b) : h \in HeaderInputs, i \in ids, b \in bodies}

\* ---------------------------------------------------- calls into the store
\* the store functions called on their own, as the routes and scripts call them
NoCall ==
  [fn |-> "", id |-> 0, patch |-> EmptyObject, threw |-> FALSE, value |-> Null]

CallOf(fn, id, patch, out) ==
  [fn |-> fn, id |-> id, patch |-> patch, threw |-> out.threw, value |-> out.value]

\* the empty patch, every patch of one key, and every patch of `lead` and
\* one more key, over the values of `vals`
Patches(vals, lead) ==
  {EmptyObject}
    \cup UNION {{k :> v : v \in vals[k]} : k \in DOMAIN vals}
    \cup UNION {{(lead :> v) @@ (k :> w) : v \in vals[lead], w \in vals[k]} :
                 k \in DOMAIN vals \ {lead}}

PosterIds == {"poster-1", "poster-2"}
AnnouncementIds == {"announcement-1", "announcement-2"}
EventIds == {"event-1", "event-2"}

PosterInputs ==
  {[id |-> i, title |-> "Sunday Service", category |-> "service",
    imageUrl |-> "/uploads/a.png"] : i \in PosterIds}
    \cup {[id |-> "poster-1", title |-> "Sunday Service", category |-> "service",
           imageUrl |-> "/uploads/a.png", description |-> "Join us"],
          [id |-> "poster-1", title |-> "Sunday Service", category |-> "service"]}

AnnouncementInputs ==
  {[id |-> i, title |-> "Notice", date |-> "2026-01-04", description |-> "Join us",
    icon |-> "Bell", badge |-> "New", badgeVariant |-> "default"] :
     i \in AnnouncementIds}

EventInputs ==
  {[id |-> i, title |-> "Shiloh", date |-> "2026-12-08", time |-> "9am",
    description |-> "Join us", imageUrl |-> "/uploads/a.png"] : i \in EventIds}

UserInputs ==
  {[id |-> NewUserId(users), email |-> "Bob@wc.org",
    passwordHash |-> hashPassword("changeme1"), name |-> n, role |-> "admin",
    mustChangePassword |-> TRUE] : n \in {NULL, "Bob"}}

PosterPatches ==
  Patches([title |-> {NULL, "Easter"},
           category |-> {NULL, "event", "concert"},
           imageUrl |-> {NULL, "/uploads/b.png"},
           description |-> {NULL, "All are welcome"},
           isActive |-> {FALSE},
           displayOrder |-> {1},
           serviceTime |-> {"9am"}], "title")

AnnouncementPatches ==
  Patches([title |-> {NULL, "Easter"},
           date |-> {"2026-04-05"},
           description |-> {NULL, "All are welcome"},
           icon |-> {"Star"},
           badge |-> {"Soon"},
           badgeVariant |-> {"outline", "loud"},
           isActive |-> {FALSE}], "title")

EventPatches ==
  Patches([title |-> {NULL, "Easter"},
           date |-> {"2026-04-05"},
           time |-> {"7am"},
           description |-> {NULL, "All are welcome"},
           imageUrl |-> {"/uploads/b.png"},
           isActive |-> {FALSE}], "title")

UserPatches ==
  Patches([email |-> {NULL, "Bob@wc.org", "Admin@WinnersChapel"},
           name |-> {NULL, "Bob"},
           role |-> {NULL, "super_admin", "guest"},
           isActive |-> {FALSE},
           mustChangePassword |-> {TRUE}], "email")

\* ----------------------------------------------------------- specification
\* the database after migrate and seed: seedAdmin has inserted defaultAdmin
Init ==
  /\ users = [i \in {1} |->
                [id |-> 1, email |-> defaultAdmin.email,
                 password_hash |-> hashPassword(defaultAdmin.password),
                 name |-> defaultAdmin.name, role |-> defaultAdmin.role,
                 must_change_password |-> FALSE, is_active |-> TRUE,
                 last_login |-> <<>>, created_at |-> 0, updated_at |-> 0]]
  /\ issued = {}
  /\ now = 0
  /\ reqUser = Null
  /\ res = Fail("", 0, "")
  /\ served = 0
  /\ posters = EmptyTable
  /\ announcements = EmptyTable
  /\ events = EmptyTable
  /\ call = NoCall
  /\ themes = EmptyTable
  /\ files = StaticAssets
  /\ migrationsDir = MigrationFiles
  /\ schema = FullSchema(MigrationFiles)
  /\ ledger = getMigrationFiles(MigrationFiles)
  /\ uploadCategory = "posters"
  /\ inFlight = {}

\* a handler runs to its response; the bounds cap the rows, the tokens and
\* the length of the run
Serve(req, out) ==
  /\ served < MaxRequests
  /\ served' = served + 1
  /\ Cardinality(DOMAIN out.users) <= MaxUsers
  /\ Cardinality(out.issued) <= MaxTokens
  /\ users' = out.users
  /\ issued' = out.issued
  /\ reqUser' = authMiddleware(out.res.route, req.headers).user
  /\ res' = out.res
  /\ UNCHANGED <<now, posters, announcements, events, call, diskAndSchema,
                 uploadRouter>>

Login ==
  \E req \in {Request(NoAuthorization, 0, b) : b \in LoginBodies} :
    Serve(req, PostAuthLogin(req))

Logout == \E req \in Requests({0}, {EmptyObject}) : Serve(req, PostAuthLogout(req))

Me == \E req \in Requests({0}, {EmptyObject}) : Serve(req, GetAuthMe(req))

Profile == \E req \in Requests({0}, ProfileBodies) : Serve(req, PutAuthProfile(req))

Password == \E req \in Requests({0}, PasswordBodies) : Serve(req, PutAuthPassword(req))

ListUsers == \E req \in Requests({0}, {EmptyObject}) : Serve(req, GetUsers(req))

GetUser == \E req \in Requests(IdInputs, {EmptyObject}) : Serve(req, GetUsersId(req))

CreateUser == \E req \in Requests({0}, PostUsersBodies) : Serve(req, PostUsers(req))

UpdateUser == \E req \in Requests(IdInputs, PutUsersBodies) : Serve(req, PutUsersId(req))

ResetPassword ==
  \E req \in Requests(IdInputs, ResetBodies) : Serve(req, PutUsersIdResetPassword(req))

DeactivateUser == \E req \in Requests(IdInputs, {EmptyObject}) : Serve(req, DeleteUsersId(req))

Tick ==
  /\ now + TickHours <= MaxNow
  /\ now' = now + TickHours
  /\ UNCHANGED <<users, issued, reqUser, res, served, posters, announcements,
                 events, call, diskAndSchema, uploadRouter>>

Next ==
  \/ Login \/ Logout \/ Me \/ Profile \/ Password
  \/ ListUsers \/ GetUser \/ CreateUser \/ UpdateUser \/ ResetPassword
  \/ DeactivateUser
  \/ Tick

Spec == Init /\ [][Next]_vars

\* ------------------------------------------- specification of the store
StoreCall(c) ==
  /\ served < MaxCalls
  /\ served' = served + 1
  /\ call' = c
  /\ UNCHANGED <<issued, now, reqUser, res, diskAndSchema, uploadRouter>>

CallCreatePoster ==
  \E p \in PosterInputs :
    LET out == createPoster(posters, p)
    IN /\ Cardinality(DOMAIN out.rows) <= MaxItems
       /\ posters' = out.rows
       /\ StoreCall(CallOf("createPoster", p.id, p, out))
       /\ UNCHANGED <<users, announcements, events>>

CallUpdatePoster ==
  \E i \in PosterIds, p \in PosterPatches :
    LET out == updatePoster(posters, i, p)
    IN /\ posters' = out.rows
       /\ StoreCall(CallOf("updatePoster", i, p, out))
       /\ UNCHANGED <<users, announcements, events>>

CallCreateAnnouncement ==
  \E a \in AnnouncementInputs :
    LET out == createAnnouncement(announcements, a)
    IN /\ Cardinality(DOMAIN out.rows) <= MaxItems
       /\ announcements' = out.rows
       /\ StoreCall(CallOf("createAnnouncement", a.id, a, out))
       /\ UNCHANGED <<users, posters, events>>

CallUpdateAnnouncement ==
  \E i \in AnnouncementIds, p \in AnnouncementPatches :
    LET out == updateAnnouncement(announcements, i, p)
    IN /\ announcements' = out.rows
       /\ StoreCall(CallOf("updateAnnouncement", i, p, out))
       /\ UNCHANGED <<users, posters, events>>

CallCreateEvent ==
  \E e \in EventInputs :
    LET out == createEvent(events, e)
    IN /\ Cardinality(DOMAIN out.rows) <= MaxItems
       /\ events' = out.rows
       /\ StoreCall(CallOf("createEvent", e.id, e, out))
       /\ UNCHANGED <<users, posters, announcements>>

CallUpdateEvent ==
  \E i \in EventIds, p \in EventPatches :
    LET out == updateEvent(events, i, p)
    IN /\ events' = out.rows
       /\ StoreCall(CallOf("updateEvent", i, p, out))
       /\ UNCHANGED <<users, posters, announcements>>

CallCreateUser ==
  \E u \in UserInputs :
    LET out == createUser(users, u)
    IN /\ Cardinality(DOMAIN out.users) <= MaxUsers
       /\ users' = out.users
       /\ StoreCall(CallOf("createUser", u.id, u, out))
       /\ UNCHANGED <<posters, announcements, events>>

CallUpdateUser ==
  \E i \in IdInputs, p \in UserPatches :
    LET out == updateUser(users, i, p)
    IN /\ users' = out.users
       /\ StoreCall(CallOf("updateUser", i, p, out))
       /\ UNCHANGED <<posters, announcements, events>>

NextStore ==
  \/ CallCreatePoster \/ CallUpdatePoster
  \/ CallCreateAnnouncement \/ CallUpdateAnnouncement
  \/ CallCreateEvent \/ CallUpdateEvent
  \/ CallCreateUser \/ CallUpdateUser
  \/ Tick

SpecStore == Init /\ [][NextStore]_vars

\* ------------------------------------------- specification of the content
\* the bodies the content routes are sent
ImageInputs ==
  {"/uploads/events/a.png", "/uploads/events/b.png",
   "/assets/posters/sunday-service.jpg"}

PosterBodies ==
  {[title |-> "Sunday Service", category |-> "service", imageUrl |-> i] :
     i \in ImageInputs \cup {""}}
    \cup {[title |-> "Sunday Service", category |-> "service"],
          [title |-> "Sunday Service", category |-> "concert"]}

AnnouncementBodies ==
  {[title |-> t, date |-> "2026-01-04", description |-> "Join us",
    icon |-> "Bell", badge |-> "New", badgeVariant |-> v] :
     t \in {"Notice", "Easter"}, v \in {"default"}}
    \cup {[title |-> "Notice"]}

EventBodies ==
  {[title |-> "Shiloh", date |-> "2026-12-08", time |-> "9am",
    description |-> "Join us", imageUrl |-> i] : i \in ImageInputs \cup {""}}

ThemeBodies ==
  {[title |-> "Restoration", posterPath |-> p] :
     p \in {"/uploads/theme/a.png", "/uploads/events/a.png",
            "/assets/posters/sunday-service.jpg"}}
    \cup {[title |-> "Restoration"]}

ThemeIds == {"theme-1", "theme-2"}

\* the file part of a multipart upload, Null when the form has none
FileInputs ==
  {Null}
    \cup {[mimetype |-> m, size |-> s] :
            m \in {"image/png", "application/pdf"},
            s \in {1024, FileSizeLimit + 1}}

UploadBodies ==
  {EmptyObject} \cup {[category |-> c] : c \in {"events", "theme", "posters"}}

\* the upload directory of a request: the category's, or any when it has none
UploadDir(body) ==
  IF categoryMap(Get(body, "category")) = Undefined THEN "events"
  ELSE categoryMap(Get(body, "category"))

\* the requests of a content route: under every token handed out, and one
\* without a token
ContentRequests(ids, bodies) ==
  {Request(h, i, b) : h \in IssuedHeaders, i \in ids, b \in bodies}
    \cup {Request(NoAuthorization, CHOOSE i \in ids : TRUE,
                  CHOOSE b \in bodies : TRUE)}

\* the default administrator signs in
AdminLogin ==
  LET req == Request(NoAuthorization, 0,
                     [email |-> defaultAdmin.email,
                      password |-> defaultAdmin.password])
      out == PostAuthLogin(req)
  IN /\ out.issued # issued
     /\ Cardinality(out.issued) <= MaxTokens
     /\ users' = out.users
     /\ issued' = out.issued
     /\ reqUser' = Null
     /\ res' = out.res
     /\ call' = [fn |-> out.res.route, id |-> 0, patch |-> req.body,
                 threw |-> FALSE, value |-> Null]
     /\ UNCHANGED <<now, served, posters, announcements, events,
                    diskAndSchema, uploadRouter>>

\* a content handler runs to its response, or to the point where the process
\* stops
ServeContent(req, out) ==
  /\ served < MaxContent
  /\ served' = served + 1
  /\ Cardinality(DOMAIN out.rows) <= MaxItems
  /\ res' = out.res
  /\ files' = out.files
  /\ reqUser' = Null
  /\ call' = [fn |-> out.res.route, id |-> req.params.id, patch |-> req.body,
              threw |-> out.unlinkThrew,
              value |-> IF "file" \in DOMAIN req THEN req.file ELSE Null]
  /\ UNCHANGED <<users, issued, now, migrationsDir, schema, ledger, uploadRouter>>

ListPosters ==
  LET req == Request(NoAuthorization, "", EmptyObject)
  IN ServeContent(req, GetPosters(req))
       /\ UNCHANGED <<posters, announcements, events, themes>>

GetPoster ==
  \E i \in PosterIds :
    LET req == Request(NoAuthorization, i, EmptyObject)
    IN ServeContent(req, GetPostersId(req))
         /\ UNCHANGED <<posters, announcements, events, themes>>

CreatePoster ==
  \E req \in ContentRequests({""}, PosterBodies),
     uuid \in PosterIds \ DOMAIN posters, faults \in {NoFaults} :
    LET out == PostPosters(req, uuid, faults)
    IN ServeContent(req, out) /\ posters' = out.rows
         /\ UNCHANGED <<announcements, events, themes>>

UpdatePoster ==
  \E req \in ContentRequests(PosterIds, PosterBodies), faults \in Faults :
    LET out == PutPostersId(req, faults)
    IN ServeContent(req, out) /\ posters' = out.rows
         /\ UNCHANGED <<announcements, events, themes>>

DeletePoster ==
  \E req \in ContentRequests(PosterIds, {EmptyObject}), faults \in {NoFaults} :
    LET out == DeletePostersId(req, faults)
    IN ServeContent(req, out) /\ posters' = out.rows
         /\ UNCHANGED <<announcements, events, themes>>

ListAnnouncements ==
  LET req == Request(NoAuthorization, "", EmptyObject)
  IN ServeContent(req, GetAnnouncements(req))
       /\ UNCHANGED <<posters, announcements, events, themes>>

GetAnnouncement ==
  \E i \in AnnouncementIds :
    LET req == Request(NoAuthorization, i, EmptyObject)
    IN ServeContent(req, GetAnnouncementsId(req))
         /\ UNCHANGED <<posters, announcements, events, themes>>

CreateAnnouncement ==
  \E req \in ContentRequests({""}, AnnouncementBodies),
     uuid \in AnnouncementIds \ DOMAIN announcements, faults \in {NoFaults} :
    LET out == PostAnnouncements(req, uuid, faults)
    IN ServeContent(req, out) /\ announcements' = out.rows
         /\ UNCHANGED <<posters, events, themes>>

UpdateAnnouncement ==
  \E req \in ContentRequests(AnnouncementIds, AnnouncementBodies),
     faults \in {NoFaults} :
    LET out == PutAnnouncementsId(req, faults)
    IN ServeContent(req, out) /\ announcements' = out.rows
         /\ UNCHANGED <<posters, events, themes>>

DeleteAnnouncement ==
  \E req \in ContentRequests(AnnouncementIds, {EmptyObject}),
     faults \in {NoFaults} :
    LET out == DeleteAnnouncementsId(req, faults)
    IN ServeContent(req, out) /\ announcements' = out.rows
         /\ UNCHANGED <<posters, events, themes>>

ListEvents ==
  LET req == Request(NoAuthorization, "", EmptyObject)
  IN ServeContent(req, GetEvents(req))
       /\ UNCHANGED <<posters, announcements, events, themes>>

GetEvent ==
  \E i \in EventIds :
    LET req == Request(NoAuthorization, i, EmptyObject)
    IN ServeContent(req, GetEventsId(req))
         /\ UNCHANGED <<posters, announcements, events, themes>>

CreateEvent ==
  \E req \in ContentRequests({""}, EventBodies),
     uuid \in EventIds \ DOMAIN events, faults \in {NoFaults} :
    LET out == PostEvents(req, uuid, faults)
    IN ServeContent(req, out) /\ events' = out.rows
         /\ UNCHANGED <<posters, announcements, themes>>

UpdateEvent ==
  \E req \in ContentRequests(EventIds, EventBodies), faults \in Faults :
    LET out == PutEventsId(req, faults)
    IN ServeContent(req, out) /\ events' = out.rows
         /\ UNCHANGED <<posters, announcements, themes>>

DeleteEvent ==
  \E req \in ContentRequests(EventIds, {EmptyObject}), faults \in {NoFaults} :
    LET out == DeleteEventsId(req, faults)
    IN ServeContent(req, out) /\ events' = out.rows
         /\ UNCHANGED <<posters, announcements, themes>>

CreateTheme ==
  \E req \in ContentRequests({""}, ThemeBodies),
     uuid \in ThemeIds \ DOMAIN themes, faults \in {NoFaults} :
    LET out == PostTheme(req, uuid, faults)
    IN ServeContent(req, out) /\ themes' = out.rows
         /\ UNCHANGED <<posters, announcements, events>>

UpdateTheme ==
  \E req \in ContentRequests(ThemeIds, ThemeBodies), faults \in Faults :
    LET out == PutThemeId(req, faults)
    IN ServeContent(req, out) /\ themes' = out.rows
         /\ UNCHANGED <<posters, announcements, events>>

DeleteTheme ==
  \E req \in ContentRequests(ThemeIds, {EmptyObject}), faults \in Faults :
    LET out == DeleteThemeId(req, faults)
    IN ServeContent(req, out) /\ themes' = out.rows
         /\ UNCHANGED <<posters, announcements, events>>

Upload ==
  \E req \in ContentRequests({""}, UploadBodies), file \in FileInputs :
    \E path \in UploadPaths[UploadDir(req.body)] \ files :
      LET out == PostUpload(req, file, path)
      IN ServeContent([req EXCEPT !.params = [id |-> path]] @@ [file |-> file], out)
           /\ UNCHANGED <<posters, announcements, events, themes>>

NextContent ==
  \/ AdminLogin
  \/ ListPosters \/ GetPoster \/ CreatePoster \/ UpdatePoster \/ DeletePoster
  \/ ListAnnouncements \/ GetAnnouncement \/ CreateAnnouncement
  \/ UpdateAnnouncement \/ DeleteAnnouncement
  \/ ListEvents \/ GetEvent \/ CreateEvent \/ UpdateEvent \/ DeleteEvent
  \/ CreateTheme \/ UpdateTheme \/ DeleteTheme
  \/ Upload

SpecContent == Init /\ [][NextContent]_vars

\* ------------------------------------------ specification of the commands
\* npm run migrate, migrate:rollback, seed and seed:clear on a new database
Database ==
  [users |-> users, posters |-> posters, announcements |-> announcements,
   events |-> events]

InitMigrate ==
  /\ users = EmptyTable
  /\ issued = {}
  /\ now = 0
  /\ reqUser = Null
  /\ res = Fail("", 0, "")
  /\ served = 0
  /\ posters = EmptyTable
  /\ announcements = EmptyTable
  /\ events = EmptyTable
  /\ call = NoCall
  /\ themes = EmptyTable
  /\ files = StaticAssets
  /\ migrationsDir = {LedgerFile, FileOrder[2], FileOrder[3]}
  /\ schema = {}
  /\ ledger = <<>>
  /\ uploadCategory = "posters"
  /\ inFlight = {}

\* a command runs to its end, or to the exit after its failure
Command(fn, trouble, failed, value) ==
  /\ served < MaxCommands
  /\ served' = served + 1
  /\ call' = [fn |-> fn, id |-> 0, patch |-> trouble, threw |-> failed,
              value |-> value]
  /\ UNCHANGED <<issued, now, reqUser, res, themes, files, uploadRouter>>

\* the troubles a migrate run can meet
MigrateTroubles ==
  {NoTrouble, [NoTrouble EXCEPT !.select = TRUE]}
    \cup {[NoTrouble EXCEPT !.file = f, !.at = a] :
            f \in Range(getMigrationFiles(migrationsDir)) \ Range(ledger),
            a \in 1..3}

StatementTroubles(statements) ==
  {[NoTrouble EXCEPT !.statement = k] : k \in 0..(Len(statements) + 1)}

Migrate ==
  \E trouble \in MigrateTroubles :
    LET out == migrate([schema |-> schema, ledger |-> ledger], migrationsDir, trouble)
    IN /\ schema' = out.db.schema
       /\ ledger' = out.db.ledger
       /\ Command("migrate", trouble, out.failed # "",
                   [ran |-> out.ran, failed |-> out.failed])
       /\ UNCHANGED <<migrationsDir, users, posters, announcements, events>>

\* DROP TABLE ... CASCADE takes the rows of the table with it
Rollback ==
  \E trouble \in {[NoTrouble EXCEPT !.statement = k] : k \in 0..2} :
    LET out == rollback([schema |-> schema, ledger |-> ledger], trouble)
        dropped == {TableOf[f] : f \in Applied(schema) \ Applied(out.schema)}
        Kept(table, rows) == IF table \in dropped THEN EmptyTable ELSE rows
    IN /\ schema' = out.schema
       /\ ledger' = out.ledger
       /\ users' = Kept("users", users)
       /\ posters' = Kept("posters", posters)
       /\ announcements' = Kept("announcements", announcements)
       /\ events' = Kept("events", events)
       /\ Command("rollback", trouble, ledger # <<>> /\ trouble.statement # 0, Null)
       /\ UNCHANGED migrationsDir

RunTransaction(fn, out, trouble) ==
  /\ users' = out.db.users
  /\ posters' = out.db.posters
  /\ announcements' = out.db.announcements
  /\ events' = out.db.events
  /\ Command(fn, trouble, out.threw, Null)
  /\ UNCHANGED <<migrationsDir, schema, ledger>>

Seed ==
  \E trouble \in StatementTroubles(SeedStatements) :
    RunTransaction("seed", seed(Database, schema, trouble), trouble)

Clear ==
  \E trouble \in StatementTroubles(ClearStatements) :
    RunTransaction("clear", clear(Database, schema, trouble), trouble)

\* a new migration file arrives in the migrations directory
AddMigrationFile ==
  \E f \in MigrationFiles \ migrationsDir :
    /\ migrationsDir' = migrationsDir \cup {f}
    /\ call' = [NoCall EXCEPT !.fn = "add", !.patch = [file |-> f]]
    /\ UNCHANGED <<users, issued, now, reqUser, res, served, posters,
                   announcements, events, themes, files, schema, ledger,
                   uploadRouter>>

NextMigrate == Migrate \/ Rollback \/ Seed \/ Clear \/ AddMigrationFile

SpecMigrate == InitMigrate /\ [][NextMigrate]_vars

\* ------------------------------------------- the versions of routes/upload
\* a multipart body is its parts in the order they arrive
Field(name, value) == [kind |-> "field", name |-> name, value |-> value, file |-> Null]

FilePart(file) == [kind |-> "file", name |-> "file", value |-> "", file |-> file]

\* the position of the file part, 0 when the body has none
FileAt(parts) ==
  IF \E i \in DOMAIN parts : parts[i].kind = "file"
  THEN CHOOSE i \in DOMAIN parts : parts[i].kind = "file"
  ELSE 0

\* req.body once the first n parts have been read
BodyAfter(parts, n) ==
  LET read == {i \in 1..n : parts[i].kind = "field"}
  IN [k \in {parts[i].name : i \in read} |->
        parts[CHOOSE i \in read : parts[i].name = k].value]

\* `/uploads/${dirName}/${filename}`
PathOf(dirName, filename) == "/uploads/" \o dirName \o "/" \o filename

\* req.body as filled when the file part arrives
BodyAtFile(parts) == BodyAfter(parts, FileAt(parts) - 1)

\* upload.single('file'): multer reads the parts in the order of the body; a
\* field goes into req.body, the file part passes fileFilter, is given the
\* dirName that storage.destination answered for req.body as filled so far,
\* and is written
single(fs, parts, filename, dirName) ==
  LET at == FileAt(parts)
      file == parts[at].file
      none == [error |-> "", files |-> fs, dirName |-> "",
               body |-> BodyAfter(parts, Len(parts))]
  IN IF at = 0 THEN none
     ELSE IF ~fileFilter(file)
     THEN [none EXCEPT !.error = "Only image files (JPEG, PNG, WebP) are allowed"]
     ELSE IF dirName = Undefined
     THEN [none EXCEPT
             !.error = "Invalid category. Must be one of: services, events, theme"]
     ELSE IF file.size > FileSizeLimit
     THEN [none EXCEPT !.error = "File is too large. Maximum size is 5MB."]
     ELSE [none EXCEPT !.files = fs \cup {PathOf(dirName, filename)},
                       !.dirName = dirName]

\* what an upload leaves behind: the response, the disk, and the directory
\* and name the file was written under ("" when none was)
Uploaded(r, fs, dirName, filename) ==
  [res |-> r, files |-> fs, dirName |-> dirName, filename |-> filename]

\* the error callback of upload.single, then `if (!req.file)`
UploadRefused(route, done, filename) ==
  IF done.error # ""
  THEN Uploaded(Fail(route, 400, done.error), done.files, "", filename)
  ELSE Uploaded(Fail(route, 400, "No file was uploaded"), done.files, "", filename)

\* the router whose destination takes req.body.category through categoryMap
destinationOfMap(body) == categoryMap(Get(body, "category"))

PostUploadOfMap(req, parts, filename) ==
  LET route == "POST /upload"
      gate == authMiddleware(route, req.headers)
      done == single(files, parts, filename, destinationOfMap(BodyAtFile(parts)))
      category == Get(done.body, "category")
  IN IF ~gate.next THEN Uploaded(gate.res, files, "", filename)
     ELSE IF done.error # "" \/ done.dirName = ""
     THEN UploadRefused(route, done, filename)
     ELSE IF categoryMap(category) = Undefined
     THEN Uploaded(Fail(route, 400, "Invalid upload category"), done.files,
                   done.dirName, filename)
     ELSE Uploaded(Json(route, 200,
                        [success |-> TRUE,
                         url |-> PathOf(categoryMap(category), filename)]),
                   done.files, done.dirName, filename)

\* the router whose destination is req.body.category || 'posters'
destinationOrPosters(body) == OrElse(Get(body, "category"), "posters")

PostUploadOrPosters(req, parts, filename) ==
  LET route == "POST /upload"
      gate == authMiddleware(route, req.headers)
      done == single(files, parts, filename,
                     destinationOrPosters(BodyAtFile(parts)))
      category == OrElse(Get(done.body, "category"), "posters")
  IN IF ~gate.next THEN Uploaded(gate.res, files, "", filename)
     ELSE IF done.error # "" \/ done.dirName = ""
     THEN UploadRefused(route, done, filename)
     ELSE Uploaded(Json(route, 200,
                        [success |-> TRUE, url |-> PathOf(category, filename)]),
                   done.files, done.dirName, filename)

\* the router that keeps the category in the module-level uploadCategory
\* categoryMap[category] || category
dirNameOf(category) == category

\* bb.on('field'): uploadCategory = val || 'posters' for a category field
\* of the body; the variable keeps its value when the body has none
categoryRead(current, parts) ==
  LET body == BodyAfter(parts, Len(parts))
  IN IF "category" \in DOMAIN body THEN OrElse(body.category, "posters")
     ELSE current

\* bb.on('finish'): upload.single with the destination read from
\* uploadCategory, then the response
PostUploadOfModule(parts, filename) ==
  LET route == "POST /upload"
      done == single(files, parts, filename,
                     dirNameOf(OrElse(uploadCategory, "posters")))
      category == OrElse(Get(done.body, "category"),
                         OrElse(uploadCategory, "posters"))
  IN IF done.error # "" \/ done.dirName = ""
     THEN UploadRefused(route, done, filename)
     ELSE Uploaded(Json(route, 200,
                        [success |-> TRUE,
                         url |-> PathOf(dirNameOf(category), filename)]),
                   done.files, done.dirName, filename)

\* ------------------------------------------- specification of the uploads
MaxInFlight == 2

CategoryInputs == {"events", "theme"}

\* a form with a file: alone, after its category field, or before it
FormInputs ==
  LET png == FilePart([mimetype |-> "image/png", size |-> 1024])
  IN {<<png>>, <<FilePart([mimetype |-> "application/pdf", size |-> 1024])>>,
      <<FilePart([mimetype |-> "image/png", size |-> FileSizeLimit + 1])>>}
       \cup {<<Field("category", c)>> : c \in CategoryInputs}
       \cup {<<Field("category", c), png>> : c \in CategoryInputs}
       \cup {<<png, Field("category", c)>> : c \in CategoryInputs}

\* the names uuidv4 hands out, each once
FilenameInputs == <<"a.png", "b.png", "c.png">>

Unused(n) ==
  /\ \A r \in inFlight : r.filename # n
  /\ \A d \in CategoryInputs \cup {"posters"} : PathOf(d, n) \notin files

FreeNames ==
  LET free == SelectSeq(FilenameInputs, Unused)
  IN IF free = <<>> THEN {} ELSE {Head(free)}

\* an upload is answered
ServeUpload(version, parts, out) ==
  /\ served < MaxContent
  /\ served' = served + 1
  /\ res' = out.res
  /\ files' = out.files
  /\ reqUser' = Null
  /\ call' = [fn |-> version, id |-> out.filename, patch |-> [parts |-> parts],
              threw |-> FALSE, value |-> [dirName |-> out.dirName]]
  /\ UNCHANGED <<users, issued, now, posters, announcements, events, themes,
                 migrationsDir, schema, ledger>>

UploadOfMap ==
  \E req \in ContentRequests({""}, {EmptyObject}), parts \in FormInputs,
     filename \in FreeNames :
    /\ ServeUpload("part_007", parts, PostUploadOfMap(req, parts, filename))
    /\ UNCHANGED uploadRouter

UploadOrPosters ==
  \E req \in ContentRequests({""}, {EmptyObject}), parts \in FormInputs,
     filename \in FreeNames :
    /\ ServeUpload("part_008", parts, PostUploadOrPosters(req, parts, filename))
    /\ UNCHANGED uploadRouter

\* an upload arrives at the third router: the gate, then busboy reads the form
ReceiveUpload ==
  \E req \in ContentRequests({""}, {EmptyObject}), parts \in FormInputs,
     filename \in FreeNames :
    LET gate == authMiddleware("POST /upload", req.headers)
    IN IF ~gate.next
       THEN /\ ServeUpload("part_009", parts, Uploaded(gate.res, files, "", filename))
            /\ UNCHANGED uploadRouter
       ELSE /\ Cardinality(inFlight) < MaxInFlight
            /\ served + Cardinality(inFlight) < MaxContent
            /\ uploadCategory' = categoryRead(uploadCategory, parts)
            /\ inFlight' = inFlight \cup {[parts |-> parts, filename |-> filename]}
            /\ UNCHANGED <<users, issued, now, reqUser, res, served, posters,
                           announcements, events, call, diskAndSchema>>

\* multer stores the file of an upload whose form was read, and answers
StoreUpload ==
  \E r \in inFlight :
    /\ ServeUpload("part_009", r.parts, PostUploadOfModule(r.parts, r.filename))
    /\ inFlight' = inFlight \ {r}
    /\ UNCHANGED uploadCategory

NextUpload ==
  \/ AdminLogin
  \/ UploadOfMap \/ UploadOrPosters
  \/ ReceiveUpload \/ StoreUpload

SpecUpload == Init /\ [][NextUpload]_vars

\* ---------------------------------------------------------------- claims
\* what each route answers to a request, whatever the request budget
UsersRouteOutcomes(h) ==
  {GetUsers(Request(h, 0, EmptyObject))}
    \cup {GetUsersId(Request(h, i, EmptyObject)) : i \in IdInputs}
    \cup {PostUsers(Request(h, 0, b)) : b \in PostUsersBodies}
    \cup {PutUsersId(Request(h, i, b)) : i \in IdInputs, b \in PutUsersBodies}
    \cup {PutUsersIdResetPassword(Request(h, i, b)) : i \in IdInputs, b \in ResetBodies}
    \cup {DeleteUsersId(Request(h, i, EmptyObject)) : i \in IdInputs}

AuthRouteOutcomes(h) ==
  {PostAuthLogout(Request(h, 0, EmptyObject)), GetAuthMe(Request(h, 0, EmptyObject))}
    \cup {PutAuthProfile(Request(h, 0, b)) : b \in ProfileBodies}
    \cup {PutAuthPassword(Request(h, 0, b)) : b \in PasswordBodies}

Bearer(t) == WithAuthorization(<<"Bearer", t>>)

\* the tokens that pass verifyToken now
LiveTokens == {t \in issued : verifyToken(t) # Null}

UsersRoutes ==
  {"GET /users", "GET /users/:id", "POST /users", "PUT /users/:id",
   "PUT /users/:id/reset-password", "DELETE /users/:id"}

\* C1: every /users operation called with a valid token whose role claim is
\* 'admin' is answered 403 and leaves the users table as it was.
C1_AdminForbidden ==
  [][(res'.route \in UsersRoutes /\ served' # served
        /\ reqUser' # Null /\ reqUser'.role = "admin")
       => (res'.status = 403 /\ users' = users)]_vars

\* C2: the gate.  A request without an Authorization header, or with one that
\* does not start with 'Bearer ', is answered 401 AuthRequired by every
\* protected route; one whose Bearer token fails verifyToken is answered 401
\* SessionExpired; either way nothing changes.  A token that verifies reaches
\* the handler (no gate reply), which sees the token's claims as req.user.
GateReply(out, error) ==
  /\ out.res.status = 401 /\ out.res.error = error /\ out.res.body = Null
  /\ out.users = users /\ out.issued = issued

NoBearer(h) ==
  "authorization" \notin DOMAIN h \/ h.authorization[1] # "Bearer"
    \/ Len(h.authorization) < 2

\* one request to every protected route: each would write if it got through
ProbeOutcomes(h) ==
  {PostAuthLogout(Request(h, 0, EmptyObject)),
   GetAuthMe(Request(h, 0, EmptyObject)),
   PutAuthProfile(Request(h, 0, [name |-> "Admin"])),
   PutAuthPassword(Request(h, 0, [currentPassword |-> "admin123",
                                  newPassword |-> "changeme1"])),
   GetUsers(Request(h, 0, EmptyObject)),
   GetUsersId(Request(h, 1, EmptyObject)),
   PostUsers(Request(h, 0, [email |-> "Bob@wc.org", password |-> "changeme1"])),
   PutUsersId(Request(h, 1, [name |-> NULL])),
   PutUsersIdResetPassword(Request(h, 1, [newPassword |-> "changeme1"])),
   DeleteUsersId(Request(h, 1, EmptyObject))}

GateTurnsAway ==
  /\ AuthRequired # SessionExpired
  /\ \A h \in HeaderInputs :
       \A out \in ProbeOutcomes(h) :
         IF NoBearer(h) THEN GateReply(out, AuthRequired)
         ELSE IF h.authorization[2] \notin LiveTokens
         THEN GateReply(out, SessionExpired)
         ELSE out.res.error \notin {AuthRequired, SessionExpired}
  /\ res.error \in {AuthRequired, SessionExpired}
       <=> (served > 0 /\ res.route # "POST /auth/login" /\ reqUser = Null)

\* a request that got through carried a token that verified, and its claims
\* are req.user; a request that did not get through changed nothing
GateLetsThrough ==
  served' # served =>
    /\ reqUser' # Null => \E t \in LiveTokens : reqUser' = t.payload
    /\ res'.error \in {AuthRequired, SessionExpired} =>
         (res'.status = 401 /\ users' = users /\ issued' = issued)

C2_Gate == [](GateTurnsAway) /\ [][GateLetsThrough]_vars

C2_Witness ==
  /\ res.route = "DELETE /users/:id" /\ res.status = 401
  /\ res.error = SessionExpired
  /\ \E t \in issued : t \notin LiveTokens

\* C3: whoever the caller is, PUT /users/{own id} carrying role or isActive and
\* DELETE /users/{own id} are answered 400 and change nothing, and no request
\* of a caller changes the caller's own role or active flag.
SelfTargetRejected ==
  \A t \in LiveTokens :
    LET me == t.payload.id
    IN /\ \A b \in PutUsersBodies :
            ("role" \in DOMAIN b \/ "isActive" \in DOMAIN b) =>
              LET out == PutUsersId(Request(Bearer(t), me, b))
              IN out.res.status = 400 /\ out.users = users
       /\ LET out == DeleteUsersId(Request(Bearer(t), me, EmptyObject))
          IN out.res.status = 400 /\ out.users = users

OwnRoleKept ==
  (served' # served /\ reqUser' # Null) =>
    LET me == reqUser'.id
    IN /\ users'[me].role = users[me].role
       /\ users'[me].is_active = users[me].is_active

C3_NoSelfRoleChange == [](SelfTargetRejected) /\ [][OwnRoleKept]_vars

C3_Witness ==
  /\ res.route = "PUT /users/:id" /\ res.status = 400
  /\ res.error = "You cannot change your own role or deactivate yourself"
  /\ reqUser # Null /\ reqUser.role = "super_admin"

\* C4: at least one active user with role super_admin exists in every state.
C4_ActiveSuperAdmin ==
  \E i \in DOMAIN users : users[i].is_active /\ users[i].role = "super_admin"

InvalidCredentials == "The email or password you entered is incorrect"

LoginOutcome(b) == PostAuthLogin(Request(NoAuthorization, 0, b))

\* the body holds the email and the password of row i
CredentialsOf(b, i) ==
  /\ "password" \in DOMAIN b
  /\ toLowerCase(b.email) = users[i].email
  /\ comparePassword(b.password, users[i].password_hash)

\* C5: for an active user and their password, login issues a token that
\* verifyToken resolves to the id, email and role the user has in the store at
\* that moment; a later change of the stored role does not change what the
\* same token verifies to.
LoginIssuesStoredIdentity ==
  \A b \in LoginBodies :
    LET out == LoginOutcome(b)
    IN /\ \A i \in DOMAIN users :
            (users[i].is_active /\ CredentialsOf(b, i)) =>
              /\ out.res.status = 200
              /\ out.res.body.token \in out.issued
              /\ verifyToken(out.res.body.token) # Null
              /\ verifyToken(out.res.body.token).id = i
              /\ verifyToken(out.res.body.token).email = users[i].email
              /\ verifyToken(out.res.body.token).role = users[i].role
       /\ out.res.status = 200 =>
            \E i \in DOMAIN users : users[i].is_active /\ CredentialsOf(b, i)

TokenKeepsIdentity ==
  \A t \in issued :
    (verifyToken(t) # Null /\ verifyToken(t)' # Null) => verifyToken(t)' = verifyToken(t)

C5_LoginTokenIdentity ==
  [](LoginIssuesStoredIdentity) /\ [][TokenKeepsIdentity]_vars

C5_Witness ==
  /\ res.route = "PUT /users/:id" /\ res.status = 200
  /\ \E t \in LiveTokens : users[t.payload.id].role # t.payload.role

\* C6: verifyToken returns the claims exactly for a token signed with the
\* process secret and verified less than 24 hours after it was issued; for a
\* malformed token, a token signed with another secret and a token past its
\* window it returns null.
C6_TokenWindow ==
  \A t \in issued \cup {MalformedToken, ForgedToken} :
    /\ verifyToken(t) # Null
         <=> (t.wellFormed /\ t.key = JWT_SECRET /\ now - t.payload.iat < TokenTTL)
    /\ verifyToken(t) # Null => verifyToken(t) = t.payload
    /\ t \in issued => (t.wellFormed /\ t.key = JWT_SECRET)

C6_Witness ==
  /\ res.status = 401 /\ res.error = SessionExpired
  /\ \E t \in issued : now - t.payload.iat >= TokenTTL /\ verifyToken(t) = Null

\* C7: while a user is soft-deleted, getUserByEmail does not return them, login
\* with their password is answered 401 invalid-credentials and changes
\* nothing (lastLogin included), and getUserById still returns the record
\* with isActive false; no operation removes a record.
SoftDeletedLockedOut ==
  \A i \in DOMAIN users :
    ~users[i].is_active =>
      /\ getUserByEmail(users, users[i].email) = Null
      /\ getUserById(users, i) # Null
      /\ getUserById(users, i).id = i
      /\ getUserById(users, i).isActive = FALSE
      /\ \A b \in LoginBodies :
           CredentialsOf(b, i) =>
             LET out == LoginOutcome(b)
             IN /\ out.res.status = 401 /\ out.res.error = InvalidCredentials
                /\ out.users = users /\ out.issued = issued

RecordsKept == \A i \in DOMAIN users : i \in DOMAIN users' /\ users'[i].id = i

C7_SoftDelete == [](SoftDeletedLockedOut) /\ [][RecordsKept]_vars

C7_Witness ==
  /\ res.route = "DELETE /users/:id" /\ res.status = 200
  /\ \E i \in DOMAIN users :
       /\ ~users[i].is_active /\ users[i].last_login # <<>>
       /\ \E b \in LoginBodies :
            CredentialsOf(b, i) /\ LoginOutcome(b).res.status = 401

\* C8: every stored email is lowercase and no two records, active or not,
\* have emails that are equal ignoring case.
C8_EmailsLowercaseUnique ==
  /\ \A i \in DOMAIN users : toLowerCase(users[i].email) = users[i].email
  /\ \A i, j \in DOMAIN users :
       i # j => toLowerCase(users[i].email) # toLowerCase(users[j].email)

C8_Witness ==
  /\ Cardinality(DOMAIN users) >= 2
  /\ res.route \in {"PUT /users/:id", "PUT /auth/profile"} /\ res.status = 200
  /\ \E i \in DOMAIN users : users[i].email = toLowerCase("Bob@wc.org")

\* C9: POST /users, PUT /users/{id} and PUT /auth/profile with an email that
\* equals, ignoring case, the email of another record (active or not) are
\* answered 400 and change nothing; never 500.
TakenBy(e, except) ==
  \E j \in DOMAIN users \ {except} : toLowerCase(users[j].email) = toLowerCase(e)

Conflict(out) == out.res.status = 400 /\ out.users = users

C9_DuplicateEmailConflict ==
  \A t \in LiveTokens, e \in EmailInputs :
    /\ TakenBy(e, 0) =>
         Conflict(PostUsers(Request(Bearer(t), 0, [email |-> e, password |-> "changeme1"])))
    /\ \A id \in DOMAIN users :
         TakenBy(e, id) => Conflict(PutUsersId(Request(Bearer(t), id, [email |-> e])))
    /\ TakenBy(e, t.payload.id) =>
         Conflict(PutAuthProfile(Request(Bearer(t), 0, [email |-> e])))

\* the tables the update functions write, by function
Tables ==
  [updatePoster |-> posters, updateAnnouncement |-> announcements,
   updateEvent |-> events, updateUser |-> users]

\* the columns each update function lists in its SET clause, updated_at aside
Updatable ==
  [updatePoster |-> {"title", "category", "image_url", "description",
                     "is_active", "display_order"},
   updateAnnouncement |-> {"title", "date", "description", "icon", "badge",
                           "badge_variant", "is_active"},
   updateEvent |-> {"title", "date", "time", "description", "image_url",
                    "is_active"},
   updateUser |-> {"email", "name", "role", "is_active"}]

\* the columns a constraint of the table can reject a new value of
Constrained ==
  [updatePoster |-> {"category"}, updateAnnouncement |-> {"badge_variant"},
   updateEvent |-> {}, updateUser |-> {"email", "role"}]

UpdateFunctions == DOMAIN Updatable

\* a patch gives column `col` a value, and the value is not null
Supplies(patch, col) ==
  /\ CamelKey[col] \in DOMAIN patch
  /\ col \in {"is_active", "display_order", "must_change_password"}
       \/ patch[CamelKey[col]] # NULL

\* the value the store holds for a supplied one
Written(fn, col, v) ==
  IF fn = "updateUser" /\ col = "email" THEN toLowerCase(v) ELSE v

UpdateMade == served' # served /\ call'.fn \in UpdateFunctions

\* C10 as the spec states it: update(id, patch) on an existing id sets each
\* field present in the patch to the patch value and leaves every field absent
\* from the patch at its prior value; update(id, {}) leaves all fields
\* identical except updatedAt; update on an absent id returns null and changes
\* nothing.
PatchValuesWritten ==
  UpdateMade =>
    LET c == call'
        old == Tables[c.fn]
        new == Tables'[c.fn]
    IN IF c.id \notin DOMAIN old
       THEN ~c.threw /\ c.value = Null /\ new = old
       ELSE /\ ~c.threw
            /\ DOMAIN new = DOMAIN old
            /\ \A col \in DOMAIN old[c.id] \ {"updated_at"} :
                 new[c.id][col] = IF CamelKey[col] \in DOMAIN c.patch
                                  THEN c.patch[CamelKey[col]]
                                  ELSE old[c.id][col]

CoalesceUpdate ==
  UpdateMade =>
    LET c == call'
        old == Tables[c.fn]
        new == Tables'[c.fn]
    IN /\ \A f \in UpdateFunctions \ {c.fn} : Tables'[f] = Tables[f]
       /\ IF c.id \notin DOMAIN old
          THEN ~c.threw /\ c.value = Null /\ new = old
          ELSE IF c.threw
          THEN /\ new = old
               /\ \E col \in Constrained[c.fn] : Supplies(c.patch, col)
          ELSE /\ DOMAIN new = DOMAIN old
               /\ \A i \in DOMAIN old \ {c.id} : new[i] = old[i]
               /\ new[c.id].updated_at = now
               /\ c.value # Null /\ c.value.id = c.id
               /\ \A col \in DOMAIN old[c.id] \ {"updated_at"} :
                    new[c.id][col] =
                      IF col \in Updatable[c.fn] /\ Supplies(c.patch, col)
                      THEN Written(c.fn, col, c.patch[CamelKey[col]])
                      ELSE old[c.id][col]
               /\ c.patch = EmptyObject =>
                    [new[c.id] EXCEPT !.updated_at = 0]
                      = [old[c.id] EXCEPT !.updated_at = 0]

DeleteOf(route, table, byId, list) ==
  /\ res'.route = route /\ res'.status = 200
       => /\ call'.id \in DOMAIN table /\ call'.id \notin DOMAIN table'
          /\ byId.res.status = 404
          /\ \A item \in list : item.id # call'.id
  /\ res'.route = route /\ res'.status # 401 /\ call'.id \notin DOMAIN table
       => res'.status = 404 /\ table' = table

C11_DeletedIsGone ==
  [][/\ DeleteOf("DELETE /posters/:id", posters,
                  GetPostersId(Request(NoAuthorization, call.id, EmptyObject))',
                  getPosters(posters'))
     /\ DeleteOf("DELETE /announcements/:id", announcements,
                  GetAnnouncementsId(Request(NoAuthorization, call.id, EmptyObject))',
                  getAnnouncements(announcements'))
     /\ DeleteOf("DELETE /events/:id", events,
                  GetEventsId(Request(NoAuthorization, call.id, EmptyObject))',
                  getEvents(events'))
     /\ \A i \in PosterIds \ DOMAIN posters :
          deletePoster(posters, i) = Returned(posters, FALSE)
     /\ \A i \in AnnouncementIds \ DOMAIN announcements :
          deleteAnnouncement(announcements, i) = Returned(announcements, FALSE)
     /\ \A i \in EventIds \ DOMAIN events :
          deleteEvent(events, i) = Returned(events, FALSE)]_vars

\* a poster was created and then deleted
C11_Witness ==
  /\ res.route = "DELETE /posters/:id" /\ res.status = 200
  /\ call.id \notin DOMAIN posters

\* C12: a successful PUT on a poster or an event removes the file at the
\* record's previous imageUrl exactly when that value is non-empty, starts
\* with '/uploads/' and differs from the imageUrl the record has afterwards;
\* it removes no other file, so never the file at the new imageUrl.
Reconciled(route, before, after) ==
  res'.route = route /\ res'.status = 200 /\ ~call'.threw
    => IF /\ Truthy(before.imageUrl) /\ startsWithUploads(before.imageUrl)
          /\ before.imageUrl # after.imageUrl
       THEN files' = files \ {before.imageUrl}
       ELSE files' = files

C12_OldImageReconciled ==
  [][/\ Reconciled("PUT /posters/:id", getPosterById(posters, call'.id),
                    getPosterById(posters', call'.id))
     /\ Reconciled("PUT /events/:id", getEventById(events, call'.id),
                    getEventById(events', call'.id))]_vars

\* C13: after a successful DELETE of a poster, an event or a theme whose image
\* reference is under '/uploads/', the file it names is no longer on disk.
ImageRemoved(route, image) ==
  res'.route = route /\ res'.status = 200 /\ ~call'.threw
    /\ startsWithUploads(image)
    => image \notin files'

C13_DeleteRemovesImage ==
  [][/\ ImageRemoved("DELETE /posters/:id",
                      getPosterById(posters, call'.id).imageUrl)
     /\ ImageRemoved("DELETE /events/:id",
                      getEventById(events, call'.id).imageUrl)
     /\ ImageRemoved("DELETE /theme/:id",
                      getThemeById(themes, call'.id).posterPath)]_vars

\* C14: whatever way an update of a poster, an event or a theme ends (with its
\* response, with a failed store update, or with the process stopped), no
\* stored record names a file that the update has removed from disk.
Referenced ==
  {posters[i].image_url : i \in DOMAIN posters}
    \cup {events[i].image_url : i \in DOMAIN events}
    \cup {themes[i].poster_path : i \in DOMAIN themes}

C14_NoDanglingReference ==
  [][res'.route \in {"PUT /posters/:id", "PUT /events/:id", "PUT /theme/:id"}
       => (files \ files') \cap Referenced' = {}]_vars

\* C15: when the database works and the process keeps running, an update of a
\* poster, an event or a theme, or the delete of a theme, whose removal of the
\* old image fails (the file is missing, or unlinkSync raises) still applies
\* the store change and answers with the success response.
DeletionFails(image, faults) ==
  Truthy(image) /\ startsWithUploads(image) /\ (image \notin files \/ faults.unlink)

UnlinkFaults == {NoFaults, [NoFaults EXCEPT !.unlink = TRUE]}

UpdateSurvives(out, table, id, column, old, new) ==
  Truthy(new) /\ new # old
    => /\ out.res.status = 200
       /\ out.rows = [table EXCEPT ![id] = out.rows[id]]
       /\ out.rows[id][column] = new
       /\ out.files = files

C15_DeletionFailureSwallowed ==
  \A h \in IssuedHeaders, faults \in UnlinkFaults :
    /\ \A i \in DOMAIN posters, b \in PosterBodies :
         posterSchema(b).valid /\ DeletionFails(posters[i].image_url, faults)
           => UpdateSurvives(PutPostersId(Request(h, i, b), faults), posters, i,
                             "image_url", posters[i].image_url, Get(b, "imageUrl"))
    /\ \A i \in DOMAIN events, b \in EventBodies :
         eventSchema(b).valid /\ DeletionFails(events[i].image_url, faults)
           => UpdateSurvives(PutEventsId(Request(h, i, b), faults), events, i,
                             "image_url", events[i].image_url, Get(b, "imageUrl"))
    /\ \A i \in DOMAIN themes, b \in ThemeBodies :
         themeSchema(b).valid /\ DeletionFails(themes[i].poster_path, faults)
           => UpdateSurvives(PutThemeId(Request(h, i, b), faults), themes, i,
                             "poster_path", themes[i].poster_path, Get(b, "posterPath"))
    /\ \A i \in DOMAIN themes :
         DeletionFails(themes[i].poster_path, faults)
           => LET out == DeleteThemeId(Request(h, i, EmptyObject), faults)
              IN /\ out.res.status = 200
                 /\ i \notin DOMAIN out.rows
                 /\ out.files = files

\* an update has answered 200 although unlinkSync threw on the old image
C15_Witness ==
  /\ res.route \in {"PUT /posters/:id", "PUT /events/:id", "PUT /theme/:id"}
  /\ res.status = 200 /\ call.threw

\* C16: an upload that carries a token and a file whose mime type is not
\* jpeg, jpg, png or webp, or whose size is over the limit, or whose category
\* is not an allowed one, is answered 400 and leaves the files on disk as they
\* were.
Rejected(body, file) ==
  \/ ~fileFilter(file)
  \/ file.size > FileSizeLimit
  \/ categoryMap(Get(body, "category")) = Undefined

Grown(before, after, samples) ==
  /\ \A i \in DOMAIN before : i \in DOMAIN after /\ after[i] = before[i]
  /\ Cardinality(DOMAIN after \ DOMAIN before) = Len(samples)
  /\ \A k \in DOMAIN samples :
       \E i \in DOMAIN after \ DOMAIN before : after[i].title = samples[k].title

Seeded ==
  /\ \E i \in DOMAIN users' : users'[i].email = defaultAdmin.email
  /\ \A i \in DOMAIN users : i \in DOMAIN users' /\ users'[i] = users[i]
  /\ Cardinality(DOMAIN users') <= Cardinality(DOMAIN users) + 1
  /\ Grown(posters, posters', samplePosters)
  /\ Grown(announcements, announcements', sampleAnnouncements)
  /\ Grown(events, events', sampleEvents)

Cleared == \A table \in DOMAIN Database : Database'[table] = EmptyTable

C17_SeedClearAtomic ==
  [][/\ call'.fn = "seed" /\ served' # served
          => IF call'.threw THEN Database' = Database ELSE Seeded
     /\ call'.fn = "clear" /\ served' # served
          => IF call'.threw THEN Database' = Database ELSE Cleared]_vars

\* a seed run failed at its fifth statement, after four inserts had run
C17_Witness ==
  /\ call.fn = "seed" /\ call.threw /\ call.patch.statement = 5
  /\ \A table \in DOMAIN Database : TableExists(schema, table)

\* C18: a migrate run applies no file that the ledger already lists and no
\* file twice; it applies pending files in ascending order of their names
\* and appends their names to the ledger in that order, so the ledger never
\* lists a name twice; a run that finds every file in the ledger applies
\* nothing and leaves schema and ledger as they were.
NoDuplicates(seq) == \A i, j \in DOMAIN seq : seq[i] = seq[j] => i = j

Ascending(seq) ==
  \A i, j \in DOMAIN seq :
    i < j => \E m, n \in DOMAIN FileOrder :
               m < n /\ FileOrder[m] = seq[i] /\ FileOrder[n] = seq[j]

MigrateRan == call'.fn = "migrate" /\ served' # served

C18_MigrateIdempotent ==
  [][MigrateRan =>
       LET ran == call'.value.ran
           inDir == migrationsDir \ {LedgerFile}
       IN /\ Range(ran) \cap Range(ledger) = {}
          /\ Range(ran) \subseteq inDir
          /\ NoDuplicates(ran) /\ Ascending(ran)
          /\ ledger' = ledger \o ran
          /\ NoDuplicates(ledger')
          /\ schema' = schema \cup FullSchema(Range(ran) \cup {LedgerFile})
          /\ inDir \subseteq Range(ledger)
               => ran = <<>> /\ schema' = schema /\ ledger' = ledger]_vars

\* a second migrate run has applied the files that arrived after the first
C18_Witness ==
  /\ call.fn = "migrate" /\ Len(call.value.ran) >= 2
  /\ Len(ledger) > Len(call.value.ran)

\* C19: after every command the ledger lists exactly the migration files
\* whose every statement the database holds. A migrate run that fails at file
\* k leaves none of k's statements behind and appends no name for k; it has
\* applied and recorded the pending files before k, has attempted none after
\* k, and k is the first file the next run finds pending.
MigrateFailedAt(k) ==
  LET ran == call'.value.ran
      before == [schema |-> schema, ledger |-> ledger]
      after == [schema |-> schema', ledger |-> ledger']
      pending == Pending(before, migrationsDir, call'.patch)
  IN /\ ledger' = ledger \o ran
     /\ schema' \cap Range(Statements(k)) = schema \cap Range(Statements(k))
     /\ schema' = schema \cup FullSchema(Range(ran) \cup {LedgerFile})
     /\ SubSeq(pending, 1, Len(ran) + 1) = ran \o <<k>>
     /\ k \notin Range(ledger)
          => /\ k \notin Range(ledger')
             /\ Head(Pending(after, migrationsDir', NoTrouble)) = k

C19_MigrationAtomic ==
  [][/\ Range(ledger') = Applied(schema') \ {LedgerFile}
     /\ MigrateRan /\ call'.threw => MigrateFailedAt(call'.value.failed)]_vars

\* a migrate run has applied one file and failed at the second statement of
\* the next
C19_Witness ==
  /\ call.fn = "migrate" /\ call.threw /\ call.patch.at = 2
  /\ Len(call.value.ran) >= 1
  /\ call.value.failed \notin Range(ledger)

\* C20: no response body of the /api/auth and /api/users routes carries a
\* password hash: not at its top level, not in the user object or the users
\* of a list it holds, and not in the payload of the token it hands out.
HashKeys == {"passwordHash", "password_hash"}

CarriesHash(object) == DOMAIN object \cap HashKeys # {}

C20_NoPasswordHashInBody ==
  /\ ~CarriesHash(res.body)
  /\ "user" \in DOMAIN res.body => ~CarriesHash(res.body.user)
  /\ "list" \in DOMAIN res.body => \A user \in res.body.list : ~CarriesHash(user)
  /\ "token" \in DOMAIN res.body => ~CarriesHash(res.body.token.payload)

\* a user was created and the response holds the stored user
C20_Witness ==
  /\ res.route = "POST /users" /\ res.status = 201
  /\ res.body.user.id \in DOMAIN users
  /\ "password_hash" \in DOMAIN users[res.body.user.id]

\* PUT /auth/password with the token t and the body b, in the current state
PasswordOutcome(t, b) == PutAuthPassword(Request(Bearer(t), 0, b))

\* POST /auth/login with the stored email of row i and the password gets row i
\* in, with the table u
LogsIn(u, i, password) ==
  LET user == verifyCredentials(u, u[i].email, password).value
  IN user # Null /\ user.id = i

\* C21: PUT /auth/password changes a stored password hash only when
\* currentPassword verifies against the stored hash of the caller (the row the
\* token's id names) and newPassword has at least 6 characters; any other
\* request is turned away (400, 401, or 404 for a caller who is gone) and
\* leaves every passwordHash and mustChangePassword as it was; after a 200 the
\* caller logs in with the new password, no longer with a different old one,
\* and the caller's mustChangePassword is false.
C21_PasswordChange ==
  \A t \in LiveTokens, b \in PasswordBodies :
    LET out == PasswordOutcome(t, b)
        me == t.payload.id
        current == Get(b, "currentPassword")
        new == Get(b, "newPassword")
        verified ==
          /\ Truthy(current) /\ Truthy(new)
          /\ comparePassword(current, users[me].password_hash)
          /\ Len(new) >= MinPasswordLength
    IN /\ (\E i \in DOMAIN users :
             out.users[i].password_hash # users[i].password_hash) => verified
       /\ out.res.status # 200 =>
            /\ out.res.status \in {400, 401, 404}
            /\ \A i \in DOMAIN users :
                 /\ out.users[i].password_hash = users[i].password_hash
                 /\ out.users[i].must_change_password = users[i].must_change_password
       /\ out.res.status = 200 =>
            /\ verified
            /\ LogsIn(out.users, me, new)
            /\ new # current => ~LogsIn(out.users, me, current)
            /\ out.users[me].must_change_password = FALSE

\* C30: a served PUT /auth/password changes the passwordHash of no row but the
\* one whose id is the id claim of the token presented.
C30_OwnPasswordOnly ==
  [][(res'.route = "PUT /auth/password" /\ served' # served /\ reqUser' # Null)
       => \A i \in DOMAIN users :
            users'[i].password_hash # users[i].password_hash => i = reqUser'.id]_vars

\* C24: a PUT /users/:id/reset-password answered 200 leaves the target's
\* stored must_change_password true, and a POST /users answered 201 adds a row
\* whose must_change_password is true.
C24_MustChangeAfterReset ==
  \A t \in LiveTokens :
    /\ \A i \in IdInputs, b \in ResetBodies :
         LET out == PutUsersIdResetPassword(Request(Bearer(t), i, b))
         IN out.res.status = 200 => out.users[i].must_change_password = TRUE
    /\ \A b \in PostUsersBodies :
         LET out == PostUsers(Request(Bearer(t), 0, b))
         IN out.res.status = 201 =>
              \A i \in DOMAIN out.users \ DOMAIN users :
                out.users[i].must_change_password = TRUE

\* the routes behind authMiddleware
ProtectedRoutes ==
  UsersRoutes
    \cup {"GET /auth/me", "PUT /auth/profile", "PUT /auth/password",
          "POST /posters", "PUT /posters/:id", "DELETE /posters/:id",
          "POST /announcements", "PUT /announcements/:id",
          "DELETE /announcements/:id", "POST /events", "PUT /events/:id",
          "DELETE /events/:id", "POST /upload"}

\* C28: authMiddleware lets a token the server issued through exactly while
\* it is less than 24 hours old, whatever the user store holds.  For a user
\* who has been deactivated since, login with the stored email is turned
\* away, while the token still gets through the gate of every protected route:
\* it lists the users, creates a poster and uploads a file.
C28_TokenOutlivesDeactivation ==
  \A t \in issued :
    LET i == t.payload.id
        fresh == now - t.payload.iat < TokenTTL
    IN /\ \A route \in ProtectedRoutes :
            authMiddleware(route, Bearer(t)).next <=> fresh
       /\ (fresh /\ ~users[i].is_active) =>
            /\ \A b \in LoginBodies :
                 toLowerCase(b.email) = users[i].email =>
                   LoginOutcome(b).res.status \in {400, 401}
            /\ GetUsers(Request(Bearer(t), 0, EmptyObject)).res.status = 200
            /\ \A b \in PosterBodies :
                 \A uuid \in PosterIds \ DOMAIN posters :
                   LET out == PostPosters(Request(Bearer(t), "", b), uuid, NoFaults)
                   IN /\ out.res.status # 401
                      /\ (b.category = "service" /\ Truthy(Get(b, "imageUrl")))
                           => out.res.status = 201
            /\ \A path \in UploadPaths["events"] \ files :
                 PostUpload(Request(Bearer(t), "", [category |-> "events"]),
                            [mimetype |-> "image/png", size |-> 1024],
                            path).res.status = 200

C28_Witness ==
  /\ res.route = "DELETE /users/:id" /\ res.status = 200
  /\ \E t \in LiveTokens : ~users[t.payload.id].is_active

\* ------------------------------------------ specification of the listings
\* the rows a content table can hold
PosterRows ==
  {[id |-> i, title |-> "Sunday Service", category |-> "service",
    image_url |-> "/uploads/a.png", description |-> NULL, is_active |-> a,
    display_order |-> o, created_at |-> c, updated_at |-> c] :
     i \in PosterIds, a \in BOOLEAN, o \in {0, 1}, c \in {0, 1}}

AnnouncementRows ==
  {[id |-> i, title |-> "Notice", date |-> d, description |-> "Join us",
    icon |-> "Bell", badge |-> "New", badge_variant |-> "default",
    is_active |-> a, created_at |-> 0, updated_at |-> 0] :
     i \in AnnouncementIds, a \in BOOLEAN, d \in {DateOrder[1], DateOrder[2]}}

EventRows ==
  {[id |-> i, title |-> "Shiloh", date |-> d, time |-> "9am",
    description |-> "Join us", image_url |-> "/uploads/a.png",
    is_active |-> a, created_at |-> 0, updated_at |-> 0] :
     i \in EventIds, a \in BOOLEAN, d \in {DateOrder[2], DateOrder[3]}}

\* the tables of at most MaxItems + 1 rows, keyed by id
TablesOf(ids, rows) ==
  UNION {{t \in [k -> rows] : \A i \in k : t[i].id = i} :
           k \in {x \in SUBSET ids : Cardinality(x) <= MaxItems + 1}}

\* a database in which one content table holds rows
InitList ==
  /\ users = EmptyTable
  /\ issued = {}
  /\ now = 0
  /\ reqUser = Null
  /\ res = Fail("", 0, "")
  /\ served = 0
  /\ posters \in TablesOf(PosterIds, PosterRows)
  /\ announcements \in TablesOf(AnnouncementIds, AnnouncementRows)
  /\ events \in TablesOf(EventIds, EventRows)
  /\ Cardinality({t \in {posters, announcements, events} : t # EmptyTable}) <= 1
  /\ call = NoCall
  /\ themes = EmptyTable
  /\ files = StaticAssets
  /\ migrationsDir = MigrationFiles
  /\ schema = FullSchema(MigrationFiles)
  /\ ledger = getMigrationFiles(MigrationFiles)
  /\ uploadCategory = "posters"
  /\ inFlight = {}

\* a query that reads a table and returns
ReadCall(fn, id, value) ==
  /\ StoreCall([fn |-> fn, id |-> id, patch |-> EmptyObject, threw |-> FALSE,
                value |-> value])
  /\ UNCHANGED <<users, posters, announcements, events>>

CallGetPosters ==
  \E rows \in getPostersRows(posters) : ReadCall("getPosters", "", [list |-> rows])

CallGetPosterById ==
  \E i \in PosterIds : ReadCall("getPosterById", i, getPosterById(posters, i))

CallGetAnnouncements ==
  \E rows \in getAnnouncementsRows(announcements) :
    ReadCall("getAnnouncements", "", [list |-> rows])

CallGetAnnouncementById ==
  \E i \in AnnouncementIds :
    ReadCall("getAnnouncementById", i, getAnnouncementById(announcements, i))

CallGetEvents ==
  \E rows \in getEventsRows(events) : ReadCall("getEvents", "", [list |-> rows])

CallGetEventById ==
  \E i \in EventIds : ReadCall("getEventById", i, getEventById(events, i))

NextList ==
  \/ CallGetPosters \/ CallGetPosterById
  \/ CallGetAnnouncements \/ CallGetAnnouncementById
  \/ CallGetEvents \/ CallGetEventById

SpecList == InitList /\ [][NextList]_vars

\* the list holds each active row of the table once, in camelCase, and nothing else
ExactlyActive(list, t) ==
  /\ Range(list) = {toCamelCase(t[i]) : i \in {j \in DOMAIN t : t[j].is_active}}
  /\ Len(list) = Cardinality({j \in DOMAIN t : t[j].is_active})

\* C22: a listing returns exactly the rows whose is_active is true, announcements
\* by date descending, events by date ascending, posters by displayOrder
\* ascending and, within one displayOrder, by createdAt descending; getById
\* returns the row of any id the table holds, active or not.
C22_ListingOrder ==
  LET list == call.value.list
      ById(t) == call.id \in DOMAIN t =>
                   (call.value = toCamelCase(t[call.id]) /\ call.value.id = call.id)
  IN /\ call.fn = "getPosters" =>
          /\ ExactlyActive(list, posters)
          /\ \A i, j \in DOMAIN list :
               i < j =>
                 \/ list[i].displayOrder < list[j].displayOrder
                 \/ /\ list[i].displayOrder = list[j].displayOrder
                    /\ list[i].createdAt >= list[j].createdAt
     /\ call.fn = "getAnnouncements" =>
          /\ ExactlyActive(list, announcements)
          /\ \A i, j \in DOMAIN list :
               i < j => DateRank(list[i].date) >= DateRank(list[j].date)
     /\ call.fn = "getEvents" =>
          /\ ExactlyActive(list, events)
          /\ \A i, j \in DOMAIN list :
               i < j => DateRank(list[i].date) =< DateRank(list[j].date)
     /\ call.fn = "getPosterById" => ById(posters)
     /\ call.fn = "getAnnouncementById" => ById(announcements)
     /\ call.fn = "getEventById" => ById(events)

C22_Witness ==
  /\ call.fn = "getPosters" /\ Len(call.value.list) = 2
  /\ call.value.list[1].displayOrder = call.value.list[2].displayOrder
  /\ call.value.list[1].createdAt > call.value.list[2].createdAt

\* the schema a create or update route validates its body with
SchemaOf(route, body) ==
  CASE route \in {"POST /posters", "PUT /posters/:id"} -> posterSchema(body)
    [] route \in {"POST /announcements", "PUT /announcements/:id"} ->
         announcementSchema(body)
    [] route \in {"POST /events", "PUT /events/:id"} -> eventSchema(body)
    [] OTHER -> themeSchema(body)

ValidatedRoutes ==
  {"POST /posters", "PUT /posters/:id", "POST /announcements",
   "PUT /announcements/:id", "POST /events", "PUT /events/:id",
   "POST /theme", "PUT /theme/:id"}

\* C23: a create or update that got past the gate with a body its schema
\* rejects is answered 400 'Please check your input' with a non-empty details
\* list of { field, message }, one entry per failing key, and leaves every
\* table and the disk as they were, whether or not the id names a row and
\* whatever fault is pending.
C23_InvalidBodyRejected ==
  [][(res'.route \in ValidatedRoutes /\ served' # served /\ res'.status # 401
        /\ ~SchemaOf(res'.route, call'.patch).valid)
       => /\ res'.status = 400 /\ res'.error = CheckInput
          /\ DOMAIN res'.body = {"details"}
          /\ Len(res'.body.details) >= 1
          /\ \A i \in DOMAIN res'.body.details :
               /\ DOMAIN res'.body.details[i] = {"field", "message"}
               /\ res'.body.details[i].message # ""
               /\ Get(call'.patch, res'.body.details[i].field)
                    \in {Undefined, NULL, "", "concert", "loud"}
          /\ UNCHANGED <<posters, announcements, events, themes, files>>]_vars

C23_Witness ==
  /\ res.route = "PUT /posters/:id" /\ res.status = 400
  /\ call.id \notin DOMAIN posters
  /\ res.body.details = <<[field |-> "category", message |-> "Invalid enum value"]>>

\* the image references of the rows of the three tables
ReferencedBy(p, e, th) ==
  {p[i].image_url : i \in DOMAIN p}
    \cup {e[i].image_url : i \in DOMAIN e}
    \cup {th[i].poster_path : i \in DOMAIN th}

\* C29: with the database and the disk working, the update or the delete of
\* one poster, event or theme removes no file that a record stored afterwards
\* still names.
C29_SharedImageKept ==
  \A t \in LiveTokens :
    /\ \A i \in PosterIds, b \in PosterBodies :
         LET out == PutPostersId(Request(Bearer(t), i, b), NoFaults)
         IN (files \ out.files) \cap ReferencedBy(out.rows, events, themes) = {}
    /\ \A i \in EventIds, b \in EventBodies :
         LET out == PutEventsId(Request(Bearer(t), i, b), NoFaults)
         IN (files \ out.files) \cap ReferencedBy(posters, out.rows, themes) = {}
    /\ \A i \in ThemeIds, b \in ThemeBodies :
         LET out == PutThemeId(Request(Bearer(t), i, b), NoFaults)
         IN (files \ out.files) \cap ReferencedBy(posters, events, out.rows) = {}
    /\ \A i \in ThemeIds :
         LET out == DeleteThemeId(Request(Bearer(t), i, EmptyObject), NoFaults)
         IN (files \ out.files) \cap ReferencedBy(posters, events, out.rows) = {}
    /\ \A i \in PosterIds :
         LET out == DeletePostersId(Request(Bearer(t), i, EmptyObject), NoFaults)
         IN (files \ out.files) \cap ReferencedBy(out.rows, events, themes) = {}
    /\ \A i \in EventIds :
         LET out == DeleteEventsId(Request(Bearer(t), i, EmptyObject), NoFaults)
         IN (files \ out.files) \cap ReferencedBy(posters, out.rows, themes) = {}

\* a rollback command has run on a ledger that listed a migration
RolledBack == call'.fn = "rollback" /\ served' # served /\ ledger # <<>>

\* the rows of the tables other than `table` are as they were, its own are gone
OnlyRowsLost(table) ==
  /\ users' = IF table = "users" THEN EmptyTable ELSE users
  /\ posters' = IF table = "posters" THEN EmptyTable ELSE posters
  /\ announcements' = IF table = "announcements" THEN EmptyTable ELSE announcements
  /\ events' = IF table = "events" THEN EmptyTable ELSE events

\* migrate run after the step, with nothing going wrong
MigrateAgain ==
  migrate([schema |-> schema', ledger |-> ledger'], migrationsDir', NoTrouble)

C25_UrlNamesWrittenFile ==
  (call.fn \in {"part_007", "part_008"} /\ res.route = "POST /upload"
     /\ res.status = 200)
    => /\ res.body.url = PathOf(call.value.dirName, call.id)
       /\ res.body.url \in files

\* the category field of a form, 'posters' when it has none
OwnCategory(parts) ==
  OrElse(Get(BodyAfter(parts, Len(parts)), "category"), "posters")

====
